---- MODULE Spec2Model ----
(***************************************************************************)
(* Subscription lifecycle, entitlement checking, renewal and webhook       *)
(* reconciliation of the SuperEngineer backend (FastAPI + SQLAlchemy).     *)
(*                                                                         *)
(* Each request handler is one action: it runs against the committed       *)
(* database state and commits (or rolls back) before the next handler      *)
(* starts.  Time is counted in whole days; one handler reads the clock     *)
(* at a single instant `now`.                                              *)
(***************************************************************************)
EXTENDS Integers, Sequences, FiniteSets, TLC

(***************************************************************************)
(* Bounds of the model                                                     *)
(***************************************************************************)
MaxSubs == 2
MaxIntents == 2
MaxNow == 60
MaxQueries == 11
MaxCancellations == 1
MaxPeriods == 3
(* rows the usage specification lets a run insert *)
MaxUsageSubs == 1

(* clock advances used by the lifecycle specification *)
TickSteps == {30}

(* the renewal specification: payment intents overall, clock horizon and   *)
(* steps (a month, a year), queries used before a renewal                  *)
MaxRenewalIntents == 4
MaxRenewalNow == 395
MaxRenewalQueries == 1
MaxRenewalSubs == 1

(* the cancellation specification: rows inserted, audit rows written *)
MaxCancelSubs == 2
MaxCancelRows == 2

(* requests (or renewal runs) that can be under way at the same time *)
MaxRequests == 2

(* the concurrent-activation specification: rows inserted or about to be *)
MaxRaceSubs == 3

(* the retry specification: clock horizon in days, payment intents        *)
(* created, renewal_attempts a row is taken to                            *)
MaxRetryNow == 33
MaxRetryIntents == 4
MaxAttemptsSeen == 4
RetryTickSteps == {1, 27}

(* the fault specification: payment intents created, rows inserted *)
MaxFaultIntents == 3
MaxFaultSubs == 2

(* the notification specification: rows inserted, payment intents created, *)
(* audit rows written                                                      *)
MaxNotifySubs == 1
MaxNotifyIntents == 3
MaxNotifyRows == 2

(* the sign-in specification: clock horizon in minutes and steps, tokens   *)
(* issued                                                                  *)
MaxSignInMinute == 11
SignInTickSteps == {1, 10}
MaxSignInTokens == 1

(* the repeated-runs specification: clock horizon in days; the days a     *)
(* failed row needs from its first failure to its last retry is           *)
(* RetriesLeftDays, defined with the engine's constants                    *)
MaxLiveNow == 36

(* the password-reset specification: clock horizon in minutes and steps *)
MaxResetMinute == 62
ResetTickSteps == {30, 31}

(* the lookup specification: rows inserted, sessions and payment intents   *)
(* created, queries counted                                                *)
MaxLookupSubs == 1
MaxLookupIntents == 1
MaxLookupQueries == 1

(* the login specification: access tokens issued, rows inserted *)
MaxTokens == 2
MaxAuthSubs == 1
RenewalTickSteps == {30, 365}

(***************************************************************************)
(* Program constants                                                       *)
(***************************************************************************)
MonthlyDays == 30
YearlyDays == 365
FreePlanId == 1
DefaultManualPlanId == 2
MaxRetryAttempts == 3
OtpExpiryMinutes == 10
ResetMaxAgeMinutes == 60
RetryDelayDays == 2
RenewalLookaheadDays == 3

(* the retries after a first failure, retry_delay_days apart *)
RetriesLeftDays == (MaxRetryAttempts - 1) * RetryDelayDays

(* null column values *)
NoDate == -1
NoIntent == 0
ManualIntent == -2
NoPM == "none"
NoUser == 0
NoToken == <<>>

Users == {1, 2}
UserInputs == Users \cup {NoUser}
PaymentMethods == {"pm_card"}

(* seed/subscription_seed.py: id -> plan row (ids in insertion order) *)
Plans ==
  (1 :> [name |-> "Free", monthly_price |-> 0, yearly_price |-> 0,
         query_limit |-> 10, document_upload_limit |-> 0]) @@
  (2 :> [name |-> "Solo", monthly_price |-> 999, yearly_price |-> 9900,
         query_limit |-> 500, document_upload_limit |-> 10]) @@
  (3 :> [name |-> "Team", monthly_price |-> 2999, yearly_price |-> 29900,
         query_limit |-> 2000, document_upload_limit |-> 50]) @@
  (4 :> [name |-> "Enterprise", monthly_price |-> 9999, yearly_price |-> 99900,
         query_limit |-> 0, document_upload_limit |-> 200])

PlanIds == DOMAIN Plans
(* the plan seeded with query_limit 0, and an id that names no plan *)
EnterprisePlanId == 4
NoPlan == 9
CycleInputs == {"monthly", "yearly"}

VARIABLES
  now,        \* datetime.utcnow(), in days
  users,      \* users table: user id -> row
  subs,       \* user_subscriptions table: sequence of rows, id = index
  payments,   \* payment_history table: sequence of rows
  cancellations, \* subscription_cancellations table: sequence of rows
  intents,    \* Stripe side: checkout sessions / payment intents, id = index
  attached,   \* Stripe side: customer (user id) -> a card is attached to it
  notices,    \* e-mails handed to send_email: set of <<kind, subscription id>>
  resp,       \* outcome of the last handler, when observed
  observe,    \* whether handlers' outcomes are recorded in resp (fixed by Init)
  tokens,     \* access tokens issued so far: token id -> user id in its "sub"
  blacklist,  \* blacklisted_tokens table: set of token ids
  inflight,   \* requests and renewal runs under way: id -> what each has read so far
  smtp_up,    \* whether the SMTP server accepts mail (smtplib raises when it does not)
  delivered,  \* e-mails the SMTP server accepted: subset of notices
  minute,     \* datetime.utcnow() as the sign-in handlers read it, in minutes
  otp_store,  \* utils/email.py otp_store: address -> (otp, expiry), NoOtp if absent
  pw_checked  \* history: users whose password login_user has verified

(* a request slot with no request under way *)
Idle == [pc |-> "idle", arg |-> 0, seen |-> {}, rows |-> << >>]

vars == <<now, users, subs, payments, cancellations, intents, attached, notices, resp,
          observe, tokens, blacklist, inflight, smtp_up, delivered,
          minute, otp_store, pw_checked>>

(***************************************************************************)
(* Helpers                                                                 *)
(***************************************************************************)

(* every cycle is given the monthly period *)
PeriodDays_monthly_only(billing_cycle) == MonthlyDays

(* timedelta(days=365) if billing_cycle == "yearly" else timedelta(days=30) *)
PeriodDays(billing_cycle) ==
  IF billing_cycle = "yearly" THEN YearlyDays ELSE MonthlyDays

(* BillingCycle.yearly if cycle_str == "yearly" else BillingCycle.monthly *)
get_billing_cycle_enum(cycle_str) ==
  IF cycle_str = "yearly" THEN "yearly" ELSE "monthly"

(* rows of user u with active == True *)
ActiveRows(S, u) == {i \in DOMAIN S : S[i].user = u /\ S[i].active}

(* the activation forgets to deactivate the rows it found *)
DeactivateAll_skipped(S, u) == S

(* for sub in existing_subs: sub.active = False *)
DeactivateAll(S, u) ==
  [i \in DOMAIN S |->
     IF S[i].user = u /\ S[i].active THEN [S[i] EXCEPT !.active = FALSE]
     ELSE S[i]]

(* UserSubscription(...) as built by every activation site; the columns   *)
(* not passed take the model's defaults                                    *)
NewSubscription(u, plan_id, cycle, expiry, auto, pi, pm, paid_at) ==
  [user |-> u, plan |-> plan_id, billing_cycle |-> cycle, active |-> TRUE,
   start_date |-> now, expiry_date |-> expiry, next_renewal_date |-> expiry,
   auto_renew |-> auto, queries_used |-> 0, documents_uploaded |-> 0,
   last_payment_date |-> paid_at, last_payment_intent_id |-> pi,
   payment_method_id |-> pm, renewal_attempts |-> 0,
   last_renewal_attempt |-> NoDate, renewal_failed |-> FALSE,
   failure_reason |-> "none", is_cancelled |-> FALSE,
   cancelled_at |-> NoDate, access_ends_at |-> NoDate]

(* what the caller sees: handler, user, status and two details *)
Observed(op, u, status, a, b) ==
  [op |-> op, user |-> u, status |-> status, a |-> a, b |-> b]

Response(op, u, status, a, b) ==
  IF observe THEN Observed(op, u, status, a, b)
  ELSE Observed("unobserved", NoUser, "ok", 0, 0)

(* otp_store.get(email) of an address without a stored OTP *)
NoOtp == [otp |-> "none", expiry |-> 0]

(* a users row after signup and e-mail verification; 2FA, if asked for,   *)
(* by e-mail                                                               *)
NewUser(is_2fa_enabled) ==
  [stripe_customer_id |-> FALSE, default_payment_method_id |-> NoPM,
   auto_renew_enabled |-> TRUE, password |-> "password_0",
   reset_token |-> NoToken, is_verified |-> TRUE,
   is_2fa_enabled |-> is_2fa_enabled,
   auth_method |-> IF is_2fa_enabled THEN "email" ELSE "none"]

(* variant: an SMTP error is raised to the caller of the send *)
SendOutcome_propagates(up) == IF up THEN "sent" ELSE "raised"

(* send_email under its try/except: an SMTP error is printed and the      *)
(* caller carries on                                                       *)
SendOutcome(up) == IF up THEN "sent" ELSE "logged"

(* the e-mails the SMTP server has accepted after msgs were handed over *)
Accepted(msgs) == IF smtp_up THEN delivered \cup msgs ELSE delivered

Init ==
  /\ now = 0
  /\ users = [u \in Users |-> NewUser(FALSE)]
  /\ subs = << >>
  /\ payments = << >>
  /\ cancellations = << >>
  /\ intents = << >>
  /\ attached = [u \in Users |-> FALSE]
  /\ notices = {}
  /\ resp = Observed("init", NoUser, "ok", 0, 0)
  /\ observe = TRUE
  /\ tokens = << >>
  /\ blacklist = {}
  /\ inflight = [r \in 1..MaxRequests |-> Idle]
  /\ smtp_up = TRUE
  /\ delivered = {}
  /\ minute = 0
  /\ otp_store = [u \in Users |-> NoOtp]
  /\ pw_checked = {}

(* the same start, with the handlers' outcomes left unrecorded *)
InitQuiet ==
  /\ now = 0
  /\ users = [u \in Users |-> NewUser(FALSE)]
  /\ subs = << >>
  /\ payments = << >>
  /\ cancellations = << >>
  /\ intents = << >>
  /\ attached = [u \in Users |-> FALSE]
  /\ notices = {}
  /\ resp = Observed("unobserved", NoUser, "ok", 0, 0)
  /\ observe = FALSE
  /\ tokens = << >>
  /\ blacklist = {}
  /\ inflight = [r \in 1..MaxRequests |-> Idle]
  /\ smtp_up = TRUE
  /\ delivered = {}
  /\ minute = 0
  /\ otp_store = [u \in Users |-> NoOtp]
  /\ pw_checked = {}

(***************************************************************************)
(* Clock                                                                   *)
(***************************************************************************)
(* d days pass; the outcome of the last request is no longer at hand *)
Tick(d) ==
  /\ now' = now + d
  /\ resp' = Response("tick", NoUser, "ok", 0, 0)
  /\ UNCHANGED <<users, subs, payments, cancellations, intents, attached, notices, delivered, observe, smtp_up, minute, otp_store, pw_checked, inflight, tokens, blacklist>>

(***************************************************************************)
(* routers/subscription.py                                                 *)
(***************************************************************************)

(* POST /subscriptions/activate-free *)
activate_free_plan(email) ==
  IF email \notin Users
  THEN /\ resp' = Response("activate_free_plan", email, "404", 0, 0)
       /\ UNCHANGED <<now, observe, smtp_up, minute, otp_store, pw_checked, inflight, tokens, blacklist, users, subs, payments, cancellations, intents, attached, notices, delivered>>
  ELSE /\ Len(subs) < MaxSubs
       /\ subs' = Append(DeactivateAll(subs, email),
                         NewSubscription(email, FreePlanId,
                                         get_billing_cycle_enum("monthly"),
                                         now + MonthlyDays, FALSE,
                                         NoIntent, NoPM, NoDate))
       /\ resp' = Response("activate_free_plan", email, "ok", Len(subs) + 1, 0)
       /\ UNCHANGED <<now, observe, smtp_up, minute, otp_store, pw_checked, inflight, tokens, blacklist, users, payments, cancellations, intents, attached, notices, delivered>>

(* POST /subscriptions/manual-activate *)
manual_activate_subscription(email, plan_id, billing_cycle) ==
  IF email \notin Users \/ plan_id \notin PlanIds
  THEN (* both HTTPException(404) are caught by `except Exception` and    *)
       (* re-raised as 500 after db.rollback()                             *)
       /\ resp' = Response("manual_activate_subscription", email, "500", 0, 0)
       /\ UNCHANGED <<now, observe, smtp_up, minute, otp_store, pw_checked, inflight, tokens, blacklist, users, subs, payments, cancellations, intents, attached, notices, delivered>>
  ELSE /\ Len(subs) < MaxSubs
       /\ subs' = Append(DeactivateAll(subs, email),
                         NewSubscription(email, plan_id,
                                         get_billing_cycle_enum(billing_cycle),
                                         now + PeriodDays(billing_cycle), FALSE,
                                         ManualIntent, NoPM, now))
       /\ resp' = Response("manual_activate_subscription", email, "ok",
                           Len(subs) + 1, 0)
       /\ UNCHANGED <<now, observe, smtp_up, minute, otp_store, pw_checked, inflight, tokens, blacklist, users, payments, cancellations, intents, attached, notices, delivered>>


(* stripe.checkout.Session.create(...) of create_checkout_session: the     *)
(* session has no customer, its metadata carries plan, cycle and email     *)
CheckoutSession(email, plan_id, billing_cycle) ==
  [kind |-> "checkout", customer |-> NoUser, email |-> email,
   plan |-> plan_id, billing_cycle |-> billing_cycle, status |-> "unpaid",
   payment_method |-> NoPM, sub |-> 0]

(* POST /subscriptions/create-checkout-session *)
create_checkout_session(email, plan_id, billing_cycle) ==
  IF plan_id \notin PlanIds
  THEN (* HTTPException(404) is caught by `except Exception` and re-raised *)
       (* as 500                                                            *)
       /\ resp' = Response("create_checkout_session", email, "500", 0, 0)
       /\ UNCHANGED <<now, observe, smtp_up, minute, otp_store, pw_checked, inflight, tokens, blacklist, users, subs, payments, cancellations, intents, attached, notices, delivered>>
  ELSE IF (IF billing_cycle = "yearly" THEN Plans[plan_id].yearly_price
           ELSE Plans[plan_id].monthly_price) <= 0
  THEN /\ resp' = Response("create_checkout_session", email, "400", 0, 0)
       /\ UNCHANGED <<now, observe, smtp_up, minute, otp_store, pw_checked, inflight, tokens, blacklist, users, subs, payments, cancellations, intents, attached, notices, delivered>>
  ELSE /\ Len(intents) < MaxIntents
       /\ intents' = Append(intents, CheckoutSession(email, plan_id, billing_cycle))
       /\ resp' = Response("create_checkout_session", email, "ok",
                           Len(intents) + 1, 0)
       /\ UNCHANGED <<now, observe, smtp_up, minute, otp_store, pw_checked, inflight, tokens, blacklist, users, subs, payments, cancellations, attached, notices, delivered>>

(* update_subscription_from_payment: the rows after a paid session i was   *)
(* applied; the early returns leave the table as it is                     *)
update_subscription_from_payment(S, i) ==
  IF intents[i].email \notin Users \/ intents[i].plan \notin PlanIds
  THEN S
  ELSE Append(DeactivateAll(S, intents[i].email),
              NewSubscription(intents[i].email, intents[i].plan,
                              get_billing_cycle_enum(intents[i].billing_cycle),
                              now + PeriodDays(intents[i].billing_cycle), TRUE,
                              i, NoPM, now))

(* GET /subscriptions/payment-status/{session_id} *)
get_payment_status(session_id) ==
  IF session_id \notin DOMAIN intents \/ intents[session_id].kind # "checkout"
  THEN /\ resp' = Response("get_payment_status", NoUser, "404", session_id, 0)
       /\ UNCHANGED <<now, observe, smtp_up, minute, otp_store, pw_checked, inflight, tokens, blacklist, users, subs, payments, cancellations, intents, attached, notices, delivered>>
  ELSE IF intents[session_id].status = "paid"
  THEN /\ Len(subs) < MaxSubs
       /\ subs' = update_subscription_from_payment(subs, session_id)
       /\ resp' = Response("get_payment_status", intents[session_id].email,
                           "succeeded", session_id, 0)
       /\ UNCHANGED <<now, observe, smtp_up, minute, otp_store, pw_checked, inflight, tokens, blacklist, users, payments, cancellations, intents, attached, notices, delivered>>
  ELSE /\ resp' = Response("get_payment_status", intents[session_id].email,
                           "pending", session_id, 0)
       /\ UNCHANGED <<now, observe, smtp_up, minute, otp_store, pw_checked, inflight, tokens, blacklist, users, subs, payments, cancellations, intents, attached, notices, delivered>>

(* the comparison taken as inclusive *)
Expired_inclusive(sub) == sub.expiry_date <= now

(* subscription.expiry_date < datetime.utcnow() *)
Expired(sub) == sub.expiry_date < now

(* the expiry is reported but the row is left as it is *)
MarkInactive_forgotten(S, i) == S

(* subscription.active = False; db.commit() *)
MarkInactive(S, i) == [S EXCEPT ![i].active = FALSE]

(* GET /subscriptions/current/{email} *)
get_current_subscription_enhanced(email) ==
  /\ UNCHANGED <<now, observe, smtp_up, minute, otp_store, pw_checked, inflight, tokens, blacklist, users, payments, cancellations, intents, attached, notices, delivered>>
  /\ IF email \notin Users
     THEN resp' = Response("get_current_subscription", email, "user_not_found", 0, 0)
          /\ UNCHANGED subs
     ELSE IF ActiveRows(subs, email) = {}
     THEN resp' = Response("get_current_subscription", email, "none", 0, 0)
          /\ UNCHANGED subs
     ELSE \E i \in ActiveRows(subs, email) :
            IF Expired(subs[i])
            THEN subs' = MarkInactive(subs, i)
                 /\ resp' = Response("get_current_subscription", email, "expired", i, 0)
            ELSE UNCHANGED subs
                 /\ resp' = Response("get_current_subscription", email, "active", i, 0)

(* GET /subscriptions/query-status/{email} *)
get_query_status(email) ==
  /\ UNCHANGED <<now, observe, smtp_up, minute, otp_store, pw_checked, inflight, tokens, blacklist, users, payments, cancellations, intents, attached, notices, delivered>>
  /\ IF email \notin Users
     THEN resp' = Response("get_query_status", email, "404", 0, 0)
          /\ UNCHANGED subs
     ELSE IF ActiveRows(subs, email) = {}
     THEN resp' = Response("get_query_status", email, "none", 0, 0)
          /\ UNCHANGED subs
     ELSE \E i \in ActiveRows(subs, email) :
            IF Expired(subs[i])
            THEN subs' = MarkInactive(subs, i)
                 /\ resp' = Response("get_query_status", email, "expired",
                                     subs[i].queries_used, 0)
            ELSE IF Plans[subs[i].plan].query_limit <= 0
            THEN UNCHANGED subs
                 /\ resp' = Response("get_query_status", email, "unlimited",
                                     subs[i].queries_used, 0)
            ELSE UNCHANGED subs
                 /\ resp' = Response("get_query_status", email, "limited",
                                     subs[i].queries_used,
                                     Plans[subs[i].plan].query_limit)

(* POST /subscriptions/increment-query *)
increment_query_count(email) ==
  /\ UNCHANGED <<now, observe, smtp_up, minute, otp_store, pw_checked, inflight, tokens, blacklist, users, payments, cancellations, intents, attached, notices, delivered>>
  /\ IF email \notin Users
     THEN resp' = Response("increment_query_count", email, "404", 0, 0)
          /\ UNCHANGED subs
     ELSE IF ActiveRows(subs, email) = {}
     THEN resp' = Response("increment_query_count", email, "none", 0, 0)
          /\ UNCHANGED subs
     ELSE \E i \in ActiveRows(subs, email) :
            IF Expired(subs[i])
            THEN subs' = MarkInactive(subs, i)
                 /\ resp' = Response("increment_query_count", email, "expired",
                                     subs[i].queries_used, 0)
            ELSE subs[i].queries_used < MaxQueries
                 /\ subs' = [subs EXCEPT ![i].queries_used = @ + 1]
                 /\ resp' = Response("increment_query_count", email, "ok",
                                     subs[i].queries_used + 1,
                                     Plans[subs[i].plan].query_limit)

(***************************************************************************)
(* dependencies/subscription_check.py, routers/search.py                   *)
(***************************************************************************)

(* the limit compared with > instead of >= *)
UsageVerdict_off_by_one(sub, check_query, check_document) ==
  IF sub.expiry_date < now THEN "expired"
  ELSE IF check_query /\ sub.queries_used > Plans[sub.plan].query_limit
  THEN "query_limit"
  ELSE IF check_document
          /\ sub.documents_uploaded >= Plans[sub.plan].document_upload_limit
  THEN "document_limit"
  ELSE "ok"

(* the outcome of check_subscription_usage on row sub *)
UsageVerdict(sub, check_query, check_document) ==
  IF Expired(sub) THEN "expired"
  ELSE IF check_query /\ sub.queries_used >= Plans[sub.plan].query_limit
  THEN "query_limit"
  ELSE IF check_document
          /\ sub.documents_uploaded >= Plans[sub.plan].document_upload_limit
  THEN "document_limit"
  ELSE "ok"

(* check_subscription_usage(user, db, check_query, check_document) *)
check_subscription_usage(user, check_query, check_document) ==
  /\ UNCHANGED <<now, observe, smtp_up, minute, otp_store, pw_checked, inflight, tokens, blacklist, users, payments, cancellations, intents, attached, notices, delivered>>
  /\ IF ActiveRows(subs, user) = {}
     THEN resp' = Response("check_subscription_usage", user, "no_subscription", 0, 0)
          /\ UNCHANGED subs
     ELSE \E i \in ActiveRows(subs, user) :
            /\ resp' = Response("check_subscription_usage", user,
                                UsageVerdict(subs[i], check_query, check_document),
                                subs[i].queries_used,
                                Plans[subs[i].plan].query_limit)
            /\ subs' = IF Expired(subs[i]) THEN MarkInactive(subs, i) ELSE subs

(* POST /search/: the entitlement check, then queries_used += 1 *)
perform_query(user, check_query) ==
  /\ UNCHANGED <<now, observe, smtp_up, minute, otp_store, pw_checked, inflight, tokens, blacklist, users, payments, cancellations, intents, attached, notices, delivered>>
  /\ IF ActiveRows(subs, user) = {}
     THEN resp' = Response("perform_query", user, "no_subscription", 0, 0)
          /\ UNCHANGED subs
     ELSE \E i \in ActiveRows(subs, user) :
            IF UsageVerdict(subs[i], check_query, FALSE) # "ok"
            THEN resp' = Response("perform_query", user,
                                  UsageVerdict(subs[i], check_query, FALSE),
                                  subs[i].queries_used,
                                  Plans[subs[i].plan].query_limit)
                 /\ subs' = IF Expired(subs[i]) THEN MarkInactive(subs, i) ELSE subs
            ELSE subs[i].queries_used < MaxQueries
                 /\ subs' = [subs EXCEPT ![i].queries_used = @ + 1]
                 /\ resp' = Response("perform_query", user, "ok",
                                     subs[i].queries_used + 1,
                                     Plans[subs[i].plan].query_limit)

(***************************************************************************)
(* Stripe side                                                             *)
(***************************************************************************)

(* the customer completes the payment of an open session / payment intent; *)
(* setup_future_usage='off_session' attaches the card to the customer      *)
StripeCustomerPays(i) ==
  /\ i \in DOMAIN intents
  /\ intents[i].status = "unpaid"
  /\ \E pm \in PaymentMethods :
       intents' = [intents EXCEPT ![i].status = "paid", ![i].payment_method = pm]
  /\ attached' = IF intents[i].kind = "simple"
                 THEN [attached EXCEPT ![intents[i].customer] = TRUE]
                 ELSE attached
  /\ UNCHANGED <<now, observe, smtp_up, minute, otp_store, pw_checked, inflight, tokens, blacklist, users, subs, payments, cancellations, resp, notices, delivered>>

(***************************************************************************)
(* routers/simple_payment.py                                               *)
(***************************************************************************)

(* stripe.PaymentIntent.create(...) of create_simple_payment_intent *)
SimplePaymentIntent(email, plan_id, billing_cycle) ==
  [kind |-> "simple", customer |-> email, email |-> email,
   plan |-> plan_id, billing_cycle |-> billing_cycle, status |-> "unpaid",
   payment_method |-> NoPM, sub |-> 0]

(* POST /simple-payments/create-payment-intent *)
create_simple_payment_intent(email, plan_id, billing_cycle) ==
  /\ UNCHANGED <<now, observe, smtp_up, minute, otp_store, pw_checked, inflight, tokens, blacklist, subs, payments, cancellations, attached, notices, delivered>>
  /\ IF email \notin Users
     THEN resp' = Response("create_simple_payment_intent", email, "500", 0, 0)
          /\ UNCHANGED <<users, intents>>
     ELSE /\ users' = [users EXCEPT ![email].stripe_customer_id = TRUE]
          /\ IF plan_id \notin PlanIds
             THEN resp' = Response("create_simple_payment_intent", email, "500", 0, 0)
                  /\ UNCHANGED intents
             ELSE IF (IF billing_cycle = "yearly" THEN Plans[plan_id].yearly_price
                      ELSE Plans[plan_id].monthly_price) = 0
             THEN resp' = Response("create_simple_payment_intent", email, "500", 0, 0)
                  /\ UNCHANGED intents
             ELSE Len(intents) < MaxIntents
                  /\ intents' = Append(intents,
                                  SimplePaymentIntent(email, plan_id, billing_cycle))
                  /\ resp' = Response("create_simple_payment_intent", email, "ok",
                                      Len(intents) + 1, 0)

(* the payment intent carries plan_id in its own metadata *)
HasPlanMetadata(pi) == intents[pi].kind \in {"simple", "saved"}

(* POST /simple-payments/confirm-payment *)
confirm_simple_payment(email, payment_intent_id) ==
  /\ UNCHANGED <<now, observe, smtp_up, minute, otp_store, pw_checked, inflight, tokens, blacklist, payments, cancellations, intents, attached, notices, delivered>>
  /\ IF \/ email \notin Users
        \/ payment_intent_id \notin DOMAIN intents
     THEN resp' = Response("confirm_simple_payment", email, "500", payment_intent_id, 0)
          /\ UNCHANGED <<users, subs>>
     ELSE IF \/ intents[payment_intent_id].status # "paid"
             \/ ~HasPlanMetadata(payment_intent_id)
             \/ intents[payment_intent_id].plan \notin PlanIds
             \/ intents[payment_intent_id].billing_cycle \notin {"monthly", "yearly"}
     THEN resp' = Response("confirm_simple_payment", email, "500", payment_intent_id, 0)
          /\ UNCHANGED <<users, subs>>
     ELSE /\ Len(subs) < MaxSubs
          /\ subs' = Append(DeactivateAll(subs, email),
                       NewSubscription(email, intents[payment_intent_id].plan,
                         intents[payment_intent_id].billing_cycle,
                         now + PeriodDays(intents[payment_intent_id].billing_cycle),
                         TRUE, payment_intent_id,
                         intents[payment_intent_id].payment_method, now))
          /\ users' = IF intents[payment_intent_id].payment_method # NoPM
                      THEN [users EXCEPT ![email].default_payment_method_id =
                                           intents[payment_intent_id].payment_method]
                      ELSE users
          /\ resp' = Response("confirm_simple_payment", email, "ok",
                              payment_intent_id, Len(subs) + 1)

(***************************************************************************)
(* routers/payment_methods.py                                              *)
(***************************************************************************)

(* DELETE /payment-methods/{payment_method_id} for the one card the user   *)
(* has saved: refused while an active auto-renewing row exists             *)
delete_payment_method(u) ==
  /\ UNCHANGED <<now, observe, smtp_up, minute, otp_store, pw_checked, inflight, tokens, blacklist, subs, payments,
                 cancellations, intents, notices, delivered>>
  /\ IF ~attached[u]
     THEN resp' = Response("delete_payment_method", u, "404", 0, 0)
          /\ UNCHANGED <<users, attached>>
     ELSE IF \E i \in ActiveRows(subs, u) : subs[i].auto_renew
     THEN resp' = Response("delete_payment_method", u, "400", 0, 0)
          /\ UNCHANGED <<users, attached>>
     ELSE /\ attached' = [attached EXCEPT ![u] = FALSE]
          /\ users' = [users EXCEPT ![u].default_payment_method_id =
                         IF @ \in PaymentMethods THEN NoPM ELSE @]
          /\ resp' = Response("delete_payment_method", u, "ok", 0, 0)

(* PaymentHistory(...) row *)
PaymentRecord(u, subscription_id, pi, amount, cycle, is_renewal) ==
  [user |-> u, subscription_id |-> subscription_id, payment_intent_id |-> pi,
   amount |-> amount, status |-> "succeeded", billing_cycle |-> cycle,
   is_renewal |-> is_renewal]

(* plan.yearly_price if billing_cycle == "yearly" else plan.monthly_price *)
PlanAmount(plan_id, billing_cycle) ==
  IF billing_cycle = "yearly" THEN Plans[plan_id].yearly_price
  ELSE Plans[plan_id].monthly_price

(* stripe.PaymentIntent.create(..., confirm=True, off_session=True) *)
SavedMethodIntent(u, plan_id, billing_cycle, pm, status) ==
  [kind |-> "saved", customer |-> u, email |-> u,
   plan |-> plan_id, billing_cycle |-> billing_cycle, status |-> status,
   payment_method |-> pm, sub |-> 0]

(* POST /payment-methods/charge-saved; charge is Stripe's answer *)
charge_saved_payment_method(u, plan_id, billing_cycle, req_pm, charge) ==
  LET pm == IF req_pm # NoPM THEN req_pm ELSE users[u].default_payment_method_id
  IN
  /\ UNCHANGED <<now, observe, smtp_up, minute, otp_store, pw_checked, inflight, tokens, blacklist, cancellations, attached, notices, delivered>>
  /\ IF \/ plan_id \notin PlanIds
        \/ pm = NoPM
        \/ ~attached[u]
     THEN resp' = Response("charge_saved_payment_method", u, "500", 0, 0)
          /\ UNCHANGED <<users, subs, payments, intents>>
     ELSE IF PlanAmount(plan_id, billing_cycle) = 0
     THEN resp' = Response("charge_saved_payment_method", u, "500", 0, 0)
          /\ UNCHANGED <<users, subs, payments, intents>>
     ELSE /\ Len(intents) < MaxIntents
          /\ IF charge # "succeeded"
             THEN /\ intents' = Append(intents,
                       SavedMethodIntent(u, plan_id, billing_cycle, pm, "failed"))
                  /\ resp' = Response("charge_saved_payment_method", u, "400",
                                      Len(intents) + 1, 0)
                  /\ UNCHANGED <<users, subs, payments>>
             ELSE /\ Len(subs) < MaxSubs
                  /\ intents' = Append(intents,
                       SavedMethodIntent(u, plan_id, billing_cycle, pm, "paid"))
                  /\ subs' = Append(DeactivateAll(subs, u),
                       NewSubscription(u, plan_id,
                                       get_billing_cycle_enum(billing_cycle),
                                       now + PeriodDays(billing_cycle), TRUE,
                                       Len(intents) + 1, pm, now))
                  /\ users' = IF users[u].default_payment_method_id = NoPM
                              THEN [users EXCEPT ![u].default_payment_method_id = pm]
                              ELSE users
                  /\ payments' = Append(payments,
                       PaymentRecord(u, Len(subs) + 1, Len(intents) + 1,
                                     PlanAmount(plan_id, billing_cycle),
                                     get_billing_cycle_enum(billing_cycle), FALSE))
                  /\ resp' = Response("charge_saved_payment_method", u, "ok",
                                      Len(intents) + 1, Len(subs) + 1)

(* POST /payment-methods/charge-saved when the commit of                    *)
(* create_payment_history_record raises: create_or_update_subscription has *)
(* committed, the handler answers 500                                      *)
charge_saved_payment_method_history_fails(u, plan_id, billing_cycle) ==
  LET pm == users[u].default_payment_method_id IN
  /\ plan_id \in PlanIds
  /\ pm # NoPM
  /\ attached[u]
  /\ PlanAmount(plan_id, billing_cycle) # 0
  /\ intents' = Append(intents,
                  SavedMethodIntent(u, plan_id, billing_cycle, pm, "paid"))
  /\ subs' = Append(DeactivateAll(subs, u),
                NewSubscription(u, plan_id, get_billing_cycle_enum(billing_cycle),
                                now + PeriodDays(billing_cycle), TRUE,
                                Len(intents) + 1, pm, now))
  /\ resp' = Response("charge_saved_payment_method", u, "500",
                      Len(intents) + 1, Len(subs) + 1)
  /\ UNCHANGED <<now, observe, smtp_up, minute, otp_store, pw_checked, inflight, tokens, blacklist, users, payments,
                 cancellations, attached, notices, delivered>>

(***************************************************************************)
(* routers/webhook_enhanced.py                                             *)
(***************************************************************************)

(* db.query(User).filter(User.stripe_customer_id == customer_id).first(),  *)
(* then the lookup by metadata email.  A session without a customer makes  *)
(* the filter `stripe_customer_id IS NULL`: any user without a customer id *)
(* matches, and first() returns one of them.                               *)
WebhookUsers(i) ==
  LET by_customer ==
        IF intents[i].customer = NoUser
        THEN {u \in Users : ~users[u].stripe_customer_id}
        ELSE {u \in Users : u = intents[i].customer /\ users[u].stripe_customer_id}
  IN IF by_customer # {} THEN by_customer
     ELSE {u \in Users : u = intents[i].email}

(* create_or_update_subscription_from_webhook: the rows afterwards *)
create_or_update_subscription_from_webhook(S, u, plan_id, billing_cycle, pi, pm) ==
  Append(DeactivateAll(S, u),
         NewSubscription(u, plan_id, get_billing_cycle_enum(billing_cycle),
                         now + PeriodDays(billing_cycle), pm # NoPM, pi, pm, now))

(* handle_enhanced_checkout_completed(session_data, db) *)
handle_enhanced_checkout_completed(i) ==
  /\ UNCHANGED <<now, observe, smtp_up, minute, otp_store, pw_checked, inflight, tokens, blacklist, cancellations, intents, attached, notices, delivered>>
  /\ IF WebhookUsers(i) = {} \/ intents[i].plan \notin PlanIds
     THEN resp' = Response("checkout_completed", NoUser, "ignored", i, 0)
          /\ UNCHANGED <<users, subs, payments>>
     ELSE \E u \in WebhookUsers(i) :
            /\ Len(subs) < MaxSubs
            /\ users' = IF intents[i].payment_method # NoPM
                           /\ users[u].default_payment_method_id = NoPM
                        THEN [users EXCEPT ![u].default_payment_method_id =
                                             intents[i].payment_method]
                        ELSE users
            /\ subs' = create_or_update_subscription_from_webhook(subs, u,
                         intents[i].plan, intents[i].billing_cycle, i,
                         intents[i].payment_method)
            /\ payments' = Append(payments,
                 PaymentRecord(u, Len(subs) + 1, i,
                               PlanAmount(intents[i].plan, intents[i].billing_cycle),
                               get_billing_cycle_enum(intents[i].billing_cycle),
                               FALSE))
            /\ resp' = Response("checkout_completed", u, "ok", i, Len(subs) + 1)

(* handle_enhanced_checkout_completed when the insert of                   *)
(* create_payment_history_from_webhook raises: the subscription is already *)
(* committed, the error is logged and only the payment row is rolled back  *)
handle_enhanced_checkout_completed_history_fails(i) ==
  /\ i \in DOMAIN intents
  /\ intents[i].status = "paid"
  /\ intents[i].kind = "checkout"
  /\ WebhookUsers(i) # {}
  /\ intents[i].plan \in PlanIds
  /\ \E u \in WebhookUsers(i) :
       /\ users' = IF intents[i].payment_method # NoPM
                      /\ users[u].default_payment_method_id = NoPM
                   THEN [users EXCEPT ![u].default_payment_method_id =
                                        intents[i].payment_method]
                   ELSE users
       /\ subs' = create_or_update_subscription_from_webhook(subs, u,
                    intents[i].plan, intents[i].billing_cycle, i,
                    intents[i].payment_method)
       /\ resp' = Response("checkout_completed", u, "ok", i, Len(subs) + 1)
  /\ UNCHANGED <<now, observe, smtp_up, minute, otp_store, pw_checked, inflight, tokens, blacklist, payments,
                 cancellations, intents, attached, notices, delivered>>

(* bound of the model: a row is carried through at most MaxPeriods billing periods *)
CanExtend(sub) ==
  sub.expiry_date + PeriodDays(sub.billing_cycle)
    <= sub.start_date + MaxPeriods * PeriodDays(sub.billing_cycle)

(* handle_renewal_payment_success: row sub after the webhook was applied *)
handle_renewal_payment_success(sub, pi) ==
  [sub EXCEPT !.renewal_failed = FALSE, !.failure_reason = "none",
              !.renewal_attempts = 0, !.last_payment_date = now,
              !.last_payment_intent_id = pi,
              !.expiry_date = sub.expiry_date + PeriodDays(sub.billing_cycle),
              !.next_renewal_date = sub.expiry_date + PeriodDays(sub.billing_cycle),
              !.queries_used = 0, !.documents_uploaded = 0]

(* handle_enhanced_payment_succeeded(payment_intent_data, db) *)
handle_enhanced_payment_succeeded(i) ==
  /\ UNCHANGED <<now, observe, smtp_up, minute, otp_store, pw_checked, inflight, tokens, blacklist, payments, cancellations, intents, attached, notices, delivered>>
  /\ IF intents[i].kind = "saved"
     THEN resp' = Response("payment_succeeded", intents[i].customer, "saved", i, 0)
          /\ UNCHANGED <<users, subs>>
     ELSE IF intents[i].kind = "renewal"
     THEN IF intents[i].sub \notin DOMAIN subs
          THEN resp' = Response("payment_succeeded", intents[i].customer,
                                "ignored", i, 0)
               /\ UNCHANGED <<users, subs>>
          ELSE CanExtend(subs[intents[i].sub])
               /\ subs' = [subs EXCEPT ![intents[i].sub] =
                            handle_renewal_payment_success(@, i)]
               /\ resp' = Response("payment_succeeded", intents[i].customer,
                                   "renewal", i, intents[i].sub)
               /\ UNCHANGED users
     ELSE IF intents[i].kind = "simple"
             /\ users[intents[i].customer].stripe_customer_id
     THEN (* setup_future_usage == 'off_session' and a payment method *)
          /\ users' = IF users[intents[i].customer].default_payment_method_id = NoPM
                      THEN [users EXCEPT ![intents[i].customer]
                              .default_payment_method_id = intents[i].payment_method]
                      ELSE users
          /\ resp' = Response("payment_succeeded", intents[i].customer, "logged", i, 0)
          /\ UNCHANGED subs
     ELSE resp' = Response("payment_succeeded", intents[i].customer, "logged", i, 0)
          /\ UNCHANGED <<users, subs>>

(* handle_payment_failed(payment_intent_data, db) *)
handle_payment_failed(i) ==
  /\ UNCHANGED <<now, observe, smtp_up, minute, otp_store, pw_checked, inflight, tokens, blacklist, users, payments,
                 cancellations, intents, attached, notices, delivered>>
  /\ IF ~users[intents[i].customer].stripe_customer_id
     THEN resp' = Response("payment_failed", NoUser, "ignored", i, 0)
          /\ UNCHANGED subs
     ELSE IF intents[i].kind = "renewal" /\ intents[i].sub \in DOMAIN subs
     THEN subs' = [subs EXCEPT ![intents[i].sub] =
                     [@ EXCEPT !.renewal_failed = TRUE,
                               !.failure_reason = "Payment failed",
                               !.renewal_attempts = @ + 1]]
          /\ resp' = Response("payment_failed", intents[i].customer, "renewal",
                              i, intents[i].sub)
     ELSE resp' = Response("payment_failed", intents[i].customer, "logged", i, 0)
          /\ UNCHANGED subs

(* variant: the event is parsed without verifying its signature *)
construct_event_unverified(valid_signature) == TRUE

(* stripe.Webhook.construct_event(payload, stripe_signature, secret):      *)
(* TRUE when the event is returned, FALSE when verification raises (no     *)
(* header, no secret, or a signature that does not match the payload)      *)
construct_event(valid_signature) == valid_signature

(* POST /webhook/stripe-enhanced: construct_event verifies the signature,  *)
(* then the event is dispatched on its type                                *)
enhanced_stripe_webhook(valid_signature, event_type, i) ==
  IF ~construct_event(valid_signature)
  THEN /\ resp' = Response("enhanced_stripe_webhook", NoUser, "400", i, 0)
       /\ UNCHANGED <<now, observe, smtp_up, minute, otp_store, pw_checked, inflight, tokens, blacklist, users, subs, payments, cancellations, intents, attached, notices, delivered>>
  ELSE /\ i \in DOMAIN intents
       /\ intents[i].status = IF event_type = "payment_intent.payment_failed"
                              THEN "failed" ELSE "paid"
       /\ CASE event_type = "checkout.session.completed" ->
                 intents[i].kind = "checkout" /\ handle_enhanced_checkout_completed(i)
            [] event_type = "payment_intent.succeeded" ->
                 handle_enhanced_payment_succeeded(i)
            [] event_type = "payment_intent.payment_failed" ->
                 intents[i].customer \in Users /\ handle_payment_failed(i)
            [] OTHER ->
                 /\ resp' = Response("enhanced_stripe_webhook", NoUser, "unhandled", i, 0)
                 /\ UNCHANGED <<now, observe, smtp_up, minute, otp_store, pw_checked, inflight, tokens, blacklist, users, subs, payments, cancellations,
                                intents, attached, notices, delivered>>

(***************************************************************************)
(* routers/subscription_cancellation.py                                    *)
(***************************************************************************)

(* max(0, (access_until - now).days) *)
RemainingDays_signed(access_until) == access_until - now

RemainingDays(access_until) ==
  IF access_until - now > 0 THEN access_until - now ELSE 0

(* SubscriptionCancellation(...) row *)
CancellationRecord(i, u, plan_id, cycle, remaining_days, access_until) ==
  [subscription_id |-> i, user |-> u, cancelled_at |-> now,
   plan_name |-> Plans[plan_id].name, billing_cycle |-> cycle,
   remaining_days |-> remaining_days, access_until |-> access_until]

(* variant: every cancellation revokes access at once *)
CancelledRow_revoked(sub, immediate_cancellation) ==
  [sub EXCEPT !.is_cancelled = TRUE, !.cancelled_at = now,
              !.auto_renew = FALSE, !.access_ends_at = now, !.active = FALSE]

(* variant: the immediate_cancellation flag of the request is ignored *)
CancelledRow_keeps_access(sub, immediate_cancellation) ==
  [sub EXCEPT !.is_cancelled = TRUE, !.cancelled_at = now,
              !.auto_renew = FALSE, !.access_ends_at = sub.expiry_date]

(* cancel_subscription: the subscription row after the update *)
CancelledRow(sub, immediate_cancellation) ==
  [sub EXCEPT !.is_cancelled = TRUE, !.cancelled_at = now,
              !.auto_renew = FALSE,
              !.access_ends_at =
                 IF immediate_cancellation THEN now ELSE sub.expiry_date,
              !.active = IF immediate_cancellation THEN FALSE ELSE @]

(* variant: a row that is already cancelled is cancelled again *)
AlreadyCancelled_ignored(sub) == FALSE

(* cancel_subscription: if subscription.is_cancelled -> 400 *)
AlreadyCancelled(sub) == sub.is_cancelled

(* POST /subscription/cancel *)
cancel_subscription(current_user, immediate_cancellation) ==
  /\ UNCHANGED <<now, observe, smtp_up, minute, otp_store, pw_checked, inflight, tokens, blacklist, users, payments, intents, attached>>
  /\ IF ActiveRows(subs, current_user) = {}
     THEN resp' = Response("cancel_subscription", current_user, "404", 0, 0)
          /\ UNCHANGED <<subs, cancellations, notices, delivered>>
     ELSE \E i \in ActiveRows(subs, current_user) :
            IF AlreadyCancelled(subs[i])
            THEN resp' = Response("cancel_subscription", current_user, "400", i, 0)
                 /\ UNCHANGED <<subs, cancellations, notices, delivered>>
            ELSE /\ subs' = [subs EXCEPT
                      ![i] = CancelledRow(subs[i], immediate_cancellation)]
                 /\ cancellations' = Append(cancellations,
                      CancellationRecord(i, current_user, subs[i].plan,
                        subs[i].billing_cycle,
                        IF immediate_cancellation THEN 0
                        ELSE RemainingDays(subs[i].expiry_date),
                        IF immediate_cancellation THEN now
                        ELSE subs[i].expiry_date))
                 /\ notices' = notices \cup {<<"cancellation", i>>}
                 /\ delivered' = Accepted({<<"cancellation", i>>})
                 /\ resp' = Response("cancel_subscription", current_user,
                                     IF SendOutcome(smtp_up) = "raised"
                                     THEN "500" ELSE "ok",
                                     i, Len(cancellations) + 1)

(* variant: reactivation is never refused *)
PastAccessPeriod_never(sub) == FALSE

(* reactivate_subscription: now > subscription.expiry_date *)
PastAccessPeriod(sub) == now > sub.expiry_date

(* variant: reactivation leaves auto_renew as the cancellation set it *)
ReactivatedRow_no_renewal(sub) ==
  [sub EXCEPT !.is_cancelled = FALSE, !.cancelled_at = NoDate,
              !.access_ends_at = NoDate]

(* reactivate_subscription: the subscription row after the update *)
ReactivatedRow(sub) ==
  [sub EXCEPT !.is_cancelled = FALSE, !.cancelled_at = NoDate,
              !.auto_renew = TRUE, !.access_ends_at = NoDate]

(* POST /subscription/reactivate *)
reactivate_subscription(current_user) ==
  /\ UNCHANGED <<now, observe, smtp_up, minute, otp_store, pw_checked, inflight, tokens, blacklist, users, payments, cancellations, intents, attached, notices, delivered>>
  /\ IF {i \in ActiveRows(subs, current_user) : subs[i].is_cancelled} = {}
     THEN resp' = Response("reactivate_subscription", current_user, "404", 0, 0)
          /\ UNCHANGED subs
     ELSE \E i \in {j \in ActiveRows(subs, current_user) : subs[j].is_cancelled} :
            IF PastAccessPeriod(subs[i])
            THEN resp' = Response("reactivate_subscription", current_user, "400", i, 0)
                 /\ UNCHANGED subs
            ELSE subs' = [subs EXCEPT ![i] = ReactivatedRow(subs[i])]
                 /\ resp' = Response("reactivate_subscription", current_user, "ok", i, 0)

(***************************************************************************)
(* utils/renewal_service.py                                                *)
(***************************************************************************)

ChargeOutcomes == {"succeeded", "requires_action", "card_declined", "exception"}

(* a failed renewal is retried at once, without the cooldown *)
ReadyForRetry_at_once(sub) ==
  /\ sub.renewal_failed
  /\ sub.renewal_attempts < MaxRetryAttempts

(* the retry query's own filters: renewal_failed, renewal_attempts below   *)
(* max_retry_attempts, last_renewal_attempt at least retry_delay_days ago  *)
ReadyForRetry(sub) ==
  /\ sub.renewal_failed
  /\ sub.renewal_attempts < MaxRetryAttempts
  /\ sub.last_renewal_attempt # NoDate
  /\ sub.last_renewal_attempt <= now - RetryDelayDays

(* the selection without the filter on UserSubscription.auto_renew *)
get_subscriptions_for_renewal_any(S) ==
  LET common(i) == /\ S[i].active
                   /\ S[i].payment_method_id # NoPM
                   /\ users[S[i].user].auto_renew_enabled
                   /\ users[S[i].user].stripe_customer_id
      due(i) == /\ ~S[i].renewal_failed
                /\ S[i].next_renewal_date # NoDate
                /\ S[i].next_renewal_date <= now + RenewalLookaheadDays
      retry(i) == ReadyForRetry(S[i])
  IN {i \in DOMAIN S : common(i) /\ (due(i) \/ retry(i))}

(* get_subscriptions_for_renewal: ids of the rows both queries select.     *)
(* A NULL date satisfies no comparison; User.auto_renew_enabled keeps its  *)
(* column default True (no handler writes it).                             *)
get_subscriptions_for_renewal(S) ==
  LET common(i) == /\ S[i].active
                   /\ S[i].auto_renew
                   /\ S[i].payment_method_id # NoPM
                   /\ users[S[i].user].auto_renew_enabled
                   /\ users[S[i].user].stripe_customer_id
      due(i) == /\ ~S[i].renewal_failed
                /\ S[i].next_renewal_date # NoDate
                /\ S[i].next_renewal_date <= now + RenewalLookaheadDays
      retry(i) == ReadyForRetry(S[i])
  IN {i \in DOMAIN S : common(i) /\ (due(i) \/ retry(i))}

(* handle_missing_payment_method(subscription) *)
handle_missing_payment_method(sub) ==
  [sub EXCEPT !.renewal_failed = TRUE,
              !.failure_reason = "Payment method no longer available",
              !.auto_renew = FALSE]

(* variant: the new period is counted from the day of the charge *)
extend_subscription_from_now(sub, days, pi) ==
  [sub EXCEPT !.expiry_date = now + days,
              !.next_renewal_date = now + days,
              !.last_payment_date = now,
              !.last_payment_intent_id = pi,
              !.queries_used = 0, !.documents_uploaded = 0]

(* extend_subscription(subscription, days, payment_intent) *)
extend_subscription(sub, days, pi) ==
  [sub EXCEPT !.expiry_date = sub.expiry_date + days,
              !.next_renewal_date = sub.expiry_date + days,
              !.last_payment_date = now,
              !.last_payment_intent_id = pi,
              !.queries_used = 0, !.documents_uploaded = 0]

(* variant: auto-renewal is given up one failure later *)
handle_renewal_failure_one_more(sub, error_message) ==
  [sub EXCEPT !.renewal_failed = TRUE, !.failure_reason = error_message,
              !.auto_renew = IF sub.renewal_attempts > MaxRetryAttempts
                             THEN FALSE ELSE @]

(* handle_renewal_failure(subscription, error_message, error_type) *)
handle_renewal_failure(sub, error_message) ==
  [sub EXCEPT !.renewal_failed = TRUE, !.failure_reason = error_message,
              !.auto_renew = IF sub.renewal_attempts >= MaxRetryAttempts
                             THEN FALSE ELSE @]

(* a payment intent that still requires action is taken as paid *)
ChargeSucceeded_lenient(charge) == charge \in {"succeeded", "requires_action"}

(* payment_intent.status == 'succeeded', no exception raised *)
ChargeSucceeded(charge) == charge = "succeeded"

(* stripe.PaymentIntent.create(..., metadata={'type': 'renewal', ...}) *)
RenewalIntent(sub, i, status) ==
  [kind |-> "renewal", customer |-> sub.user, email |-> sub.user,
   plan |-> sub.plan, billing_cycle |-> sub.billing_cycle, status |-> status,
   payment_method |-> sub.payment_method_id, sub |-> i]

(* process_subscription_renewal(subscription) inside one run.  st.cur is   *)
(* the run's session (rows with their pending changes), st.com the         *)
(* committed table; self.db.commit() flushes every pending change.         *)
process_subscription_renewal(st, i, charge) ==
  LET sub == st.cur[i]
      days == IF sub.billing_cycle = "yearly" THEN YearlyDays ELSE MonthlyDays
      amount == PlanAmount(sub.plan, sub.billing_cycle)
      attempted == [sub EXCEPT !.renewal_attempts = @ + 1,
                               !.last_renewal_attempt = now]
      pi == Len(st.ints) + 1
  IN
  IF ~attached[sub.user]
  THEN [st EXCEPT !.cur[i] = handle_missing_payment_method(sub),
                  !.notices = @ \cup {<<"payment_method_missing", i>>}]
  ELSE IF amount = 0
  THEN st
  ELSE IF charge = "raised_after_extend"
          \/ (ChargeSucceeded(charge) /\ SendOutcome(smtp_up) = "raised")
  THEN (* the charge succeeded and extend_subscription ran; a later statement *)
       (* of the try block raises: except Exception -> handle_renewal_failure, *)
       (* self.db.commit()                                                     *)
       LET failed == handle_renewal_failure(
                       extend_subscription(attempted, days, pi), "exception")
           table == [st.cur EXCEPT ![i] = failed]
       IN [cur |-> table, com |-> table, pay |-> st.pay,
           ints |-> Append(st.ints, RenewalIntent(sub, i, "paid")),
           notices |-> st.notices \cup
                       {<<IF failed.auto_renew THEN "renewal_retry"
                          ELSE "renewal_final", i>>},
           ok |-> st.ok, failed |-> st.failed + 1]
  ELSE IF ChargeSucceeded(charge)
  THEN LET renewed == [extend_subscription(attempted, days, pi) EXCEPT
                         !.renewal_failed = FALSE, !.failure_reason = "none",
                         !.renewal_attempts = 0]
           table == [st.cur EXCEPT ![i] = renewed]
       IN [cur |-> table, com |-> table,
           pay |-> Append(st.pay, PaymentRecord(sub.user, i, pi, amount,
                                                sub.billing_cycle, TRUE)),
           ints |-> Append(st.ints, RenewalIntent(sub, i, "paid")),
           notices |-> st.notices \cup {<<"renewal_success", i>>},
           ok |-> st.ok + 1, failed |-> st.failed]
  ELSE LET failed == handle_renewal_failure(attempted, charge)
           table == [st.cur EXCEPT ![i] = failed]
       IN [cur |-> table, com |-> table, pay |-> st.pay,
           ints |-> IF charge = "exception" THEN st.ints
                    ELSE Append(st.ints,
                           RenewalIntent(sub, i,
                             IF charge = "card_declined" THEN "failed" ELSE charge)),
           notices |-> st.notices \cup
                       {<<IF failed.auto_renew THEN "renewal_retry"
                          ELSE "renewal_final", i>>},
           ok |-> st.ok, failed |-> st.failed + 1]

(* for subscription in subscriptions_to_renew: ... *)
RECURSIVE RenewEach(_, _, _)
RenewEach(order, charge, st) ==
  IF order = << >> THEN st
  ELSE RenewEach(Tail(order), charge,
                 process_subscription_renewal(st, Head(order), charge[Head(order)]))

(* the two query results concatenated without set(): one candidate is     *)
(* handed out twice                                                        *)
Orders_with_repeat(C) ==
  {o \in [1..(Cardinality(C) + 1) -> C] : \A c \in C : \E a \in DOMAIN o : o[a] = c}

(* the orders list(set(...)) may hand the candidates out in *)
Orders(C) ==
  {o \in [1..Cardinality(C) -> C] : \A a, b \in DOMAIN o : o[a] = o[b] => a = b}

(* run_renewal_check(): candidates derived once, processed one by one;     *)
(* finally the session is closed and what was never committed is dropped   *)
run_renewal_check(outcomes) ==
  LET C == get_subscriptions_for_renewal(subs) IN
  /\ \E order \in Orders(C), charge \in [C -> outcomes] :
       /\ \A i \in C : charge[i] \in {"succeeded", "raised_after_extend"}
                            => CanExtend(subs[i])
       /\ LET st == RenewEach(order, charge,
                   [cur |-> subs, com |-> subs, pay |-> payments, ints |-> intents,
                    notices |-> notices, ok |-> 0, failed |-> 0])
          IN /\ subs' = st.com
             /\ payments' = st.pay
             /\ intents' = st.ints
             /\ notices' = st.notices
             /\ delivered' = Accepted(st.notices \ notices)
             /\ resp' = Response("run_renewal_check", NoUser, "done", st.ok, st.failed)
  /\ UNCHANGED <<now, observe, smtp_up, minute, otp_store, pw_checked, inflight, tokens, blacklist, users, cancellations, attached>>

(***************************************************************************)
(* utils/token.py, dependencies/auth.py, routers/auth.py and the invoice   *)
(* download of routers/user_settings.py                                    *)
(***************************************************************************)

(* decode_token(token): the "sub" of a token this server signed, None      *)
(* (NoUser) for any other string                                           *)
decode_token(token) ==
  IF token \in DOMAIN tokens THEN tokens[token] ELSE NoUser

(* is_token_blacklisted(token, db) *)
is_token_blacklisted(token) == token \in blacklist

(* get_current_user(token, db): the user, or NoUser where it raises *)
get_current_user(token) ==
  IF is_token_blacklisted(token) THEN NoUser
  ELSE IF decode_token(token) \notin Users THEN NoUser
  ELSE decode_token(token)

(* generate_otp(): random.randint(100000, 999999) *)
Codes == {"111111", "222222"}

(* what a request can send as otp_code and as auth_method *)
CodeInputs == Codes \cup {"firebase_verified"}
AuthMethods == {"email", "phone"}

(* what a request can send as password *)
PasswordInputs == {"password_0", "password_1"}

(* store_otp(email, otp, expiry_minutes=10) *)
store_otp(store, email, otp) ==
  [store EXCEPT ![email] = [otp |-> otp, expiry |-> minute + OtpExpiryMinutes]]

(* verify_email_otp: datetime.utcnow() > expiry *)
OtpExpired(entry) == minute > entry.expiry

(* variant: a matching OTP is left in the store *)
OtpStoreAfter_kept(store, email, otp) ==
  IF store[email] # NoOtp /\ OtpExpired(store[email])
  THEN [store EXCEPT ![email] = NoOtp]
  ELSE store

(* verify_email_otp(email, otp): what it returns *)
verify_email_otp(store, email, otp) ==
  /\ store[email] # NoOtp
  /\ ~OtpExpired(store[email])
  /\ otp = store[email].otp

(* verify_email_otp(email, otp): otp_store after the call (del on expiry   *)
(* and on a match)                                                         *)
OtpStoreAfter(store, email, otp) ==
  IF store[email] = NoOtp THEN store
  ELSE IF OtpExpired(store[email]) THEN [store EXCEPT ![email] = NoOtp]
  ELSE IF otp = store[email].otp THEN [store EXCEPT ![email] = NoOtp]
  ELSE store

(* minutes pass between two requests *)
TickMinute(d) ==
  /\ minute' = minute + d
  /\ resp' = Response("tick", NoUser, "ok", 0, 0)
  /\ UNCHANGED <<now, users, subs, payments, cancellations, intents, attached,
                 notices, delivered, observe, smtp_up, inflight, tokens, blacklist,
                 otp_store, pw_checked>>

(* POST /auth/login: password and e-mail verification checked; with 2FA an *)
(* OTP is stored and sent, without it the tokens are issued:               *)
(* create_access_token(data={"sub": str(user.id)})                         *)
login_user(u, password) ==
  /\ UNCHANGED <<now, observe, smtp_up, minute, inflight, users, subs, payments,
                 cancellations, intents, attached, notices, delivered, blacklist>>
  /\ IF u \notin Users
     THEN resp' = Response("login_user", u, "404", 0, 0)
          /\ UNCHANGED <<tokens, otp_store, pw_checked>>
     ELSE IF password # users[u].password
     THEN resp' = Response("login_user", u, "401", 0, 0)
          /\ UNCHANGED <<tokens, otp_store, pw_checked>>
     ELSE IF ~users[u].is_verified
     THEN resp' = Response("login_user", u, "403", 0, 0)
          /\ UNCHANGED <<tokens, otp_store, pw_checked>>
     ELSE IF users[u].is_2fa_enabled
     THEN /\ \E otp \in Codes :
               otp_store' = IF users[u].auth_method = "phone" THEN otp_store
                            ELSE store_otp(otp_store, u, otp)
          /\ pw_checked' = pw_checked \cup {u}
          /\ resp' = Response("login_user", u, "requires_2fa", 0, 0)
          /\ UNCHANGED tokens
     ELSE /\ Len(tokens) < MaxTokens
          /\ tokens' = Append(tokens, u)
          /\ pw_checked' = pw_checked \cup {u}
          /\ resp' = Response("login_user", u, "ok", Len(tokens) + 1, 0)
          /\ UNCHANGED otp_store

(* POST /auth/send-2fa-otp and POST /auth/resend-2fa-otp (the same body)   *)
send_2fa_otp(email, auth_method, contact) ==
  /\ UNCHANGED <<now, observe, smtp_up, minute, inflight, users, subs, payments,
                 cancellations, intents, attached, notices, delivered, blacklist,
                 tokens, pw_checked>>
  /\ IF email \notin Users
     THEN resp' = Response("send_2fa_otp", email, "404", 0, 0)
          /\ UNCHANGED otp_store
     ELSE /\ \E otp \in Codes :
               otp_store' = IF auth_method = "email"
                            THEN store_otp(otp_store, contact, otp)
                            ELSE otp_store
          /\ resp' = Response("send_2fa_otp", email, "ok", 0, 0)

(* POST /auth/resend-login-otp *)
resend_login_otp(email) ==
  /\ UNCHANGED <<now, observe, smtp_up, minute, inflight, users, subs, payments,
                 cancellations, intents, attached, notices, delivered, blacklist,
                 tokens, pw_checked>>
  /\ IF email \notin Users
     THEN resp' = Response("resend_login_otp", email, "404", 0, 0)
          /\ UNCHANGED otp_store
     ELSE IF ~users[email].is_2fa_enabled
     THEN resp' = Response("resend_login_otp", email, "400", 0, 0)
          /\ UNCHANGED otp_store
     ELSE /\ \E otp \in Codes :
               otp_store' = IF users[email].auth_method = "email"
                            THEN store_otp(otp_store, email, otp)
                            ELSE otp_store
          /\ resp' = Response("resend_login_otp", email, "ok", 0, 0)

(* POST /auth/verify-2fa-otp *)
verify_2fa_otp(email, auth_method, otp_code) ==
  /\ UNCHANGED <<now, observe, smtp_up, minute, inflight, users, subs, payments,
                 cancellations, intents, attached, notices, delivered, blacklist,
                 tokens, pw_checked>>
  /\ IF email \notin Users
     THEN resp' = Response("verify_2fa_otp", email, "404", 0, 0)
          /\ UNCHANGED otp_store
     ELSE LET is_valid == IF auth_method = "email"
                          THEN verify_email_otp(otp_store, email, otp_code)
                          ELSE auth_method = "phone"
          IN /\ otp_store' = IF auth_method = "email"
                             THEN OtpStoreAfter(otp_store, email, otp_code)
                             ELSE otp_store
             /\ resp' = Response("verify_2fa_otp", email,
                                 IF is_valid THEN "ok" ELSE "400", 0, 0)

(* POST /auth/complete-login *)
complete_login_after_2fa(email, auth_method, otp_code) ==
  /\ UNCHANGED <<now, observe, smtp_up, minute, inflight, users, subs, payments,
                 cancellations, intents, attached, notices, delivered, blacklist,
                 pw_checked>>
  /\ IF email \notin Users
     THEN resp' = Response("complete_login_after_2fa", email, "404", 0, 0)
          /\ UNCHANGED <<tokens, otp_store>>
     ELSE LET is_valid == IF auth_method = "email"
                          THEN verify_email_otp(otp_store, email, otp_code)
                          ELSE auth_method = "phone"
                               /\ otp_code = "firebase_verified"
          IN /\ otp_store' = IF auth_method = "email"
                             THEN OtpStoreAfter(otp_store, email, otp_code)
                             ELSE otp_store
             /\ IF is_valid
                THEN /\ Len(tokens) < MaxTokens
                     /\ tokens' = Append(tokens, email)
                     /\ resp' = Response("complete_login_after_2fa", email, "ok",
                                         Len(tokens) + 1, 0)
                ELSE /\ resp' = Response("complete_login_after_2fa", email, "400",
                                         0, 0)
                     /\ UNCHANGED tokens

(* POST /auth/google-login *)
google_login(email) ==
  /\ UNCHANGED <<now, observe, smtp_up, minute, inflight, users, subs, payments,
                 cancellations, intents, attached, notices, delivered, blacklist,
                 otp_store, pw_checked>>
  /\ IF email \notin Users
     THEN resp' = Response("google_login", email, "404", 0, 0)
          /\ UNCHANGED tokens
     ELSE /\ Len(tokens) < MaxTokens
          /\ tokens' = Append(tokens, email)
          /\ resp' = Response("google_login", email, "ok", Len(tokens) + 1, 0)

(* generate_reset_token(email): the address and the time of issue, signed *)
generate_reset_token(email) == <<email, minute>>

(* the well-signed tokens a request can present *)
ResetTokens == {<<u, m>> : u \in Users, m \in 0..MaxResetMinute}

(* confirm_reset_token(token, expiration=3600): the address, or NoUser     *)
(* where it returns None (signature older than max_age)                    *)
confirm_reset_token(token) ==
  IF minute - token[2] > ResetMaxAgeMinutes THEN NoUser ELSE token[1]

(* variant: the token stays on the user row after the reset *)
AfterReset_token_kept(row, new_password) ==
  [row EXCEPT !.password = new_password]

(* reset_password: user.password = bcrypt.hash(new_password);              *)
(* user.reset_token = None.  The password field stands for the password    *)
(* whose hash the row holds.                                               *)
AfterReset(row, new_password) ==
  [row EXCEPT !.password = new_password, !.reset_token = NoToken]

(* POST /auth/forgot-password *)
forgot_password(email) ==
  /\ UNCHANGED <<now, observe, smtp_up, minute, inflight, subs, payments,
                 cancellations, intents, attached, notices, delivered, blacklist,
                 tokens, otp_store, pw_checked>>
  /\ IF email \notin Users
     THEN resp' = Response("forgot_password", email, "404", 0, 0)
          /\ UNCHANGED users
     ELSE /\ users' = [users EXCEPT
                         ![email].reset_token = generate_reset_token(email)]
          /\ resp' = Response("forgot_password", email, "ok", 0, 0)

(* POST /auth/reset-password *)
reset_password(token, new_password) ==
  LET email == confirm_reset_token(token) IN
  /\ UNCHANGED <<now, observe, smtp_up, minute, inflight, subs, payments,
                 cancellations, intents, attached, notices, delivered, blacklist,
                 tokens, otp_store, pw_checked>>
  /\ IF email = NoUser
     THEN resp' = Response("reset_password", NoUser, "400", 0, 0)
          /\ UNCHANGED users
     ELSE IF email \notin Users \/ users[email].reset_token # token
     THEN resp' = Response("reset_password", email, "400", 0, 0)
          /\ UNCHANGED users
     ELSE /\ users' = [users EXCEPT ![email] = AfterReset(users[email], new_password)]
          /\ resp' = Response("reset_password", email, "ok", 0, 0)

(* POST /auth/logout: blacklist_token(token, db) *)
logout_user(token) ==
  /\ blacklist' = blacklist \cup {token}
  /\ resp' = Response("logout_user", NoUser, "ok", token, 0)
  /\ UNCHANGED <<now, observe, smtp_up, minute, otp_store, pw_checked, inflight, users, subs, payments, cancellations, intents,
                 attached, notices, delivered, tokens>>

(* GET /auth/me *)
get_current_user_info(token) ==
  /\ resp' = IF is_token_blacklisted(token) \/ decode_token(token) \notin Users
             THEN Response("get_current_user_info", NoUser, "401", token, 0)
             ELSE Response("get_current_user_info", decode_token(token), "ok", token, 0)
  /\ UNCHANGED <<now, observe, smtp_up, minute, otp_store, pw_checked, inflight, users, subs, payments, cancellations, intents,
                 attached, notices, delivered, tokens, blacklist>>

(* POST /subscription/cancel as the route receives it, with the bearer     *)
(* token: current_user = Depends(get_current_user)                         *)
cancel_subscription_route(token, immediate_cancellation) ==
  IF get_current_user(token) = NoUser
  THEN /\ resp' = Response("cancel_subscription", NoUser, "401", token, 0)
       /\ UNCHANGED <<now, observe, smtp_up, minute, otp_store, pw_checked, inflight, users, subs, payments, cancellations, intents,
                      attached, notices, delivered, tokens, blacklist>>
  ELSE cancel_subscription(get_current_user(token), immediate_cancellation)

(* GET /user-settings/download-invoice-public/{payment_id}?token=... *)
download_invoice_public(payment_id, token) ==
  LET user == decode_token(token) IN
  /\ resp' =
       IF user \notin Users
       THEN Response("download_invoice_public", NoUser, "401", token, 0)
       ELSE IF \/ \E p \in DOMAIN payments :
                    /\ payments[p].payment_intent_id = payment_id
                    /\ payments[p].user = user
               \/ \E r \in DOMAIN subs :
                    /\ subs[r].last_payment_intent_id = payment_id
                    /\ subs[r].user = user
       THEN Response("download_invoice_public", user, "ok", token, 0)
       ELSE Response("download_invoice_public", user, "404", token, 0)
  /\ UNCHANGED <<now, observe, smtp_up, minute, otp_store, pw_checked, inflight, users, subs, payments, cancellations, intents,
                 attached, notices, delivered, tokens, blacklist>>

(***************************************************************************)
(* Lifecycle specification: every activation site, the Stripe side, the    *)
(* webhook, cancellation, reactivation, expiry on access and the renewal   *)
(* run.  Handler outcomes are not recorded (observe = FALSE).              *)
(***************************************************************************)
Next ==
  \/ \E d \in TickSteps : now + d <= MaxNow /\ Tick(d)
  \/ \E e \in UserInputs : activate_free_plan(e)
  \/ \E e \in Users : manual_activate_subscription(e, DefaultManualPlanId, "yearly")
  \/ manual_activate_subscription(1, NoPlan, "monthly")
  \/ \E c \in CycleInputs : create_checkout_session(1, DefaultManualPlanId, c)
  \/ \E p \in {FreePlanId, NoPlan} : create_checkout_session(1, p, "monthly")
  \/ \E i \in 1..MaxIntents : StripeCustomerPays(i)
  \/ \E i \in 1..MaxIntents : get_payment_status(i)
  \/ \E e \in Users : get_current_subscription_enhanced(e)
  \/ create_simple_payment_intent(1, DefaultManualPlanId, "monthly")
  \/ \E i \in 1..MaxIntents : confirm_simple_payment(1, i)
  \/ charge_saved_payment_method(1, DefaultManualPlanId, "monthly", NoPM, "succeeded")
  \/ \E i \in 1..MaxIntents,
        t \in {"checkout.session.completed", "payment_intent.succeeded"} :
       enhanced_stripe_webhook(TRUE, t, i)
  \/ enhanced_stripe_webhook(FALSE, "checkout.session.completed", 1)
  \/ \E im \in BOOLEAN :
       Len(cancellations) < MaxCancellations /\ cancel_subscription(1, im)
  \/ reactivate_subscription(1)
  \/ \E u \in Users : check_subscription_usage(u, TRUE, FALSE)
  \/ Len(intents) + Cardinality(get_subscriptions_for_renewal(subs)) <= MaxIntents
       /\ run_renewal_check(ChargeOutcomes)

Spec == InitQuiet /\ [][Next]_vars

(***************************************************************************)
(* Usage specification: one user on the Free or the Enterprise plan issues *)
(* queries and reads its entitlement while the clock advances.  Handler    *)
(* outcomes are recorded in resp (observe = TRUE).                         *)
(***************************************************************************)
NextUsage ==
  \/ \E d \in TickSteps : now + d <= MaxNow /\ Tick(d)
  \/ Len(subs) < MaxUsageSubs /\ activate_free_plan(1)
  \/ Len(subs) < MaxUsageSubs
       /\ manual_activate_subscription(1, EnterprisePlanId, "monthly")
  \/ \E q \in BOOLEAN, d \in BOOLEAN : check_subscription_usage(1, q, d)
  \/ \E q \in BOOLEAN : perform_query(1, q)
  \/ \E e \in {1, NoUser} : increment_query_count(e)
  \/ \E e \in {1, NoUser} : get_query_status(e)
  \/ \E e \in {1, NoUser} : get_current_subscription_enhanced(e)

SpecUsage == Init /\ [][NextUsage]_vars

(***************************************************************************)
(* Renewal specification: one user buys the Solo plan with a card that is  *)
(* saved (simple payment), uses queries, and the renewal run charges the   *)
(* saved card as months and a year go by.                                  *)
(***************************************************************************)
NextRenewal ==
  \/ \E d \in RenewalTickSteps : now + d <= MaxRenewalNow /\ Tick(d)
  \/ \E c \in CycleInputs :
       Len(intents) < MaxRenewalSubs
         /\ create_simple_payment_intent(1, DefaultManualPlanId, c)
  \/ \E i \in 1..MaxRenewalSubs : StripeCustomerPays(i)
  \/ \E i \in 1..MaxRenewalSubs :
       Len(subs) < MaxRenewalSubs /\ confirm_simple_payment(1, i)
  \/ (\A i \in DOMAIN subs : subs[i].queries_used < MaxRenewalQueries)
       /\ increment_query_count(1)
  \/ Len(intents) + Cardinality(get_subscriptions_for_renewal(subs))
         <= MaxRenewalIntents
       /\ run_renewal_check(ChargeOutcomes)

SpecRenewal == InitQuiet /\ [][NextRenewal]_vars

(***************************************************************************)
(* Cancellation specification: one user buys the Solo plan monthly with a  *)
(* saved card or is activated by hand, cancels, reactivates and cancels    *)
(* again while entitlement checks and the renewal run go on.  Handler      *)
(* outcomes are recorded.                                                  *)
(***************************************************************************)
NextCancel ==
  \/ \E d \in TickSteps : now + d <= MaxNow /\ Tick(d)
  \/ Len(intents) < MaxCancelSubs
       /\ create_simple_payment_intent(1, DefaultManualPlanId, "monthly")
  \/ \E i \in 1..MaxCancelSubs : StripeCustomerPays(i)
  \/ \E i \in 1..MaxCancelSubs :
       Len(subs) < MaxCancelSubs /\ confirm_simple_payment(1, i)
  \/ Len(subs) < MaxCancelSubs
       /\ manual_activate_subscription(1, DefaultManualPlanId, "monthly")
  \/ \E im \in BOOLEAN :
       Len(cancellations) < MaxCancelRows /\ cancel_subscription(1, im)
  \/ reactivate_subscription(1)
  \/ \E q \in BOOLEAN : check_subscription_usage(1, q, FALSE)
  \/ Len(intents) + Cardinality(get_subscriptions_for_renewal(subs)) <= MaxIntents
       /\ run_renewal_check(ChargeOutcomes)

SpecCancel == Init /\ [][NextCancel]_vars

(***************************************************************************)
(* Webhook specification: checkout sessions of one user are paid and       *)
(* requests with and without a valid signature reach the webhook endpoint. *)
(* Handler outcomes are recorded.                                          *)
(***************************************************************************)
WebhookEvents ==
  {"checkout.session.completed", "payment_intent.succeeded", "customer.updated"}

NextWebhook ==
  \/ \E d \in TickSteps : now + d <= MaxNow /\ Tick(d)
  \/ \E c \in CycleInputs : create_checkout_session(1, DefaultManualPlanId, c)
  \/ \E i \in 1..MaxIntents : StripeCustomerPays(i)
  \/ \E v \in BOOLEAN, t \in WebhookEvents, i \in 1..MaxIntents :
       enhanced_stripe_webhook(v, t, i)

SpecWebhook == Init /\ [][NextWebhook]_vars

(***************************************************************************)
(* Login specification: users log in and out, a subscription is activated  *)
(* by hand, and requests carrying a token reach /auth/me, the cancellation *)
(* route and the invoice download.  Handler outcomes are recorded.         *)
(***************************************************************************)
NextAuth ==
  \/ Len(subs) < MaxAuthSubs
       /\ manual_activate_subscription(1, DefaultManualPlanId, "monthly")
  \/ \E u \in Users : login_user(u, users[u].password)
  \/ \E t \in 1..MaxTokens : logout_user(t)
  \/ \E t \in 1..MaxTokens : get_current_user_info(t)
  \/ \E t \in 1..MaxTokens : cancel_subscription_route(t, FALSE)
  \/ \E t \in 1..MaxTokens : download_invoice_public(ManualIntent, t)

SpecAuth == Init /\ [][NextAuth]_vars

(***************************************************************************)
(* Two activation requests of one user, each in its own database session.  *)
(* A handler reads the active rows, and flushes its writes at db.commit(); *)
(* between the two, another request's handler may run.                     *)
(***************************************************************************)

(* for sub in existing_subs: sub.active = False, on the rows this session  *)
(* loaded                                                                  *)
DeactivateLoaded(S, existing_subs) ==
  [i \in DOMAIN S |->
     IF i \in existing_subs THEN [S[i] EXCEPT !.active = FALSE] ELSE S[i]]

(* GET /subscriptions/payment-status/{session_id}, up to and including     *)
(* existing_subs = db.query(UserSubscription).filter(...).all()            *)
get_payment_status_query(r, session_id) ==
  /\ inflight[r] = Idle
  /\ session_id \in DOMAIN intents
  /\ intents[session_id].kind = "checkout"
  /\ intents[session_id].status = "paid"
  /\ intents[session_id].email \in Users
  /\ intents[session_id].plan \in PlanIds
  /\ inflight' = [inflight EXCEPT ![r] =
                    [pc |-> "get_payment_status", arg |-> session_id,
                     seen |-> ActiveRows(subs, intents[session_id].email),
                     rows |-> << >>]]
  /\ UNCHANGED <<now, observe, smtp_up, minute, otp_store, pw_checked, tokens, blacklist, users, subs, payments,
                 cancellations, intents, attached, notices, delivered, resp>>

(* ... db.add(new_subscription); db.commit() *)
get_payment_status_commit(r) ==
  /\ inflight[r].pc = "get_payment_status"
  /\ LET i == inflight[r].arg IN
       subs' = Append(DeactivateLoaded(subs, inflight[r].seen),
                 NewSubscription(intents[i].email, intents[i].plan,
                   get_billing_cycle_enum(intents[i].billing_cycle),
                   now + PeriodDays(intents[i].billing_cycle), TRUE,
                   i, NoPM, now))
  /\ inflight' = [inflight EXCEPT ![r] = Idle]
  /\ resp' = Response("get_payment_status", intents[inflight[r].arg].email,
                      "succeeded", inflight[r].arg, 0)
  /\ UNCHANGED <<now, observe, smtp_up, minute, otp_store, pw_checked, tokens, blacklist, users, payments,
                 cancellations, intents, attached, notices, delivered>>

(* POST /simple-payments/confirm-payment, up to and including              *)
(* existing_subs = db.query(UserSubscription).filter(...).all()            *)
confirm_simple_payment_query(r, email, payment_intent_id) ==
  /\ inflight[r] = Idle
  /\ email \in Users
  /\ payment_intent_id \in DOMAIN intents
  /\ intents[payment_intent_id].status = "paid"
  /\ HasPlanMetadata(payment_intent_id)
  /\ intents[payment_intent_id].plan \in PlanIds
  /\ intents[payment_intent_id].billing_cycle \in {"monthly", "yearly"}
  /\ inflight' = [inflight EXCEPT ![r] =
                    [pc |-> "confirm_simple_payment", arg |-> payment_intent_id,
                     seen |-> ActiveRows(subs, email),
                     rows |-> <<email>>]]
  /\ UNCHANGED <<now, observe, smtp_up, minute, otp_store, pw_checked, tokens, blacklist, users, subs, payments,
                 cancellations, intents, attached, notices, delivered, resp>>

(* ... db.add(new_subscription); user.default_payment_method_id = ...;     *)
(* db.commit()                                                             *)
confirm_simple_payment_commit(r) ==
  /\ inflight[r].pc = "confirm_simple_payment"
  /\ LET i == inflight[r].arg
         email == inflight[r].rows[1]
     IN /\ subs' = Append(DeactivateLoaded(subs, inflight[r].seen),
                     NewSubscription(email, intents[i].plan,
                       intents[i].billing_cycle,
                       now + PeriodDays(intents[i].billing_cycle),
                       TRUE, i, intents[i].payment_method, now))
        /\ users' = IF intents[i].payment_method # NoPM
                    THEN [users EXCEPT ![email].default_payment_method_id =
                                         intents[i].payment_method]
                    ELSE users
        /\ resp' = Response("confirm_simple_payment", email, "ok", i,
                            Len(subs) + 1)
  /\ inflight' = [inflight EXCEPT ![r] = Idle]
  /\ UNCHANGED <<now, observe, smtp_up, minute, otp_store, pw_checked, tokens, blacklist, payments, cancellations,
                 intents, attached, notices, delivered>>

(* requests that have read and not yet committed *)
Pending == {r \in DOMAIN inflight : inflight[r] # Idle}

NextActivationRace ==
  \/ \E d \in TickSteps : now + d <= MaxNow /\ Tick(d)
  \/ \E c \in CycleInputs : create_checkout_session(1, DefaultManualPlanId, c)
  \/ create_simple_payment_intent(1, DefaultManualPlanId, "monthly")
  \/ \E i \in 1..MaxIntents : StripeCustomerPays(i)
  \/ \E r \in 1..MaxRequests, i \in 1..MaxIntents :
       Len(subs) + Cardinality(Pending) < MaxRaceSubs
         /\ get_payment_status_query(r, i)
  \/ \E r \in 1..MaxRequests : get_payment_status_commit(r)
  \/ \E r \in 1..MaxRequests, i \in 1..MaxIntents :
       Len(subs) + Cardinality(Pending) < MaxRaceSubs
         /\ confirm_simple_payment_query(r, 1, i)
  \/ \E r \in 1..MaxRequests : confirm_simple_payment_commit(r)

SpecActivationRace == InitQuiet /\ [][NextActivationRace]_vars

(***************************************************************************)
(* Two query requests of one user.  The entitlement check loads the row;   *)
(* the increment is a later statement (search.py) or a later call          *)
(* (increment-query), and other requests may run in between.               *)
(***************************************************************************)

(* the counter is never written past the plan's limit *)
IncrementedCount_capped(sub) ==
  IF sub.queries_used + 1 > Plans[sub.plan].query_limit
  THEN sub.queries_used
  ELSE sub.queries_used + 1

(* subscription.queries_used += 1 / old_count + 1, on the row as loaded *)
IncrementedCount(sub) == sub.queries_used + 1

(* check_subscription_usage(user, db, check_query=True) returns the row *)
check_subscription_usage_passed(r, user) ==
  /\ inflight[r] = Idle
  /\ \E i \in ActiveRows(subs, user) :
       /\ UsageVerdict(subs[i], TRUE, FALSE) = "ok"
       /\ inflight' = [inflight EXCEPT ![r] =
                         [pc |-> "checked", arg |-> user, seen |-> {i},
                          rows |-> <<subs[i]>>]]
  /\ UNCHANGED <<now, observe, smtp_up, minute, otp_store, pw_checked, tokens, blacklist, users, subs, payments,
                 cancellations, intents, attached, notices, delivered, resp>>

(* POST /search/ after its dependency passed:                              *)
(* subscription.queries_used += 1; db.commit()                             *)
perform_query_commit(r) ==
  /\ inflight[r].pc = "checked"
  /\ \E i \in inflight[r].seen :
       /\ subs' = [subs EXCEPT ![i].queries_used =
                                 IncrementedCount(inflight[r].rows[1])]
       /\ resp' = Response("perform_query", inflight[r].arg, "ok",
                           IncrementedCount(inflight[r].rows[1]),
                           Plans[subs[i].plan].query_limit)
  /\ inflight' = [inflight EXCEPT ![r] = Idle]
  /\ UNCHANGED <<now, observe, smtp_up, minute, otp_store, pw_checked, tokens, blacklist, users, payments,
                 cancellations, intents, attached, notices, delivered>>

(* POST /subscriptions/increment-query by a caller whose check passed, up  *)
(* to the expiry test on the active row it finds                           *)
increment_query_count_query(r) ==
  /\ inflight[r].pc = "checked"
  /\ LET email == inflight[r].arg IN
       IF ActiveRows(subs, email) = {}
       THEN /\ inflight' = [inflight EXCEPT ![r] = Idle]
            /\ resp' = Response("increment_query_count", email, "none", 0, 0)
            /\ UNCHANGED subs
       ELSE \E i \in ActiveRows(subs, email) :
              IF Expired(subs[i])
              THEN /\ subs' = MarkInactive(subs, i)
                   /\ inflight' = [inflight EXCEPT ![r] = Idle]
                   /\ resp' = Response("increment_query_count", email, "expired",
                                       subs[i].queries_used, 0)
              ELSE /\ inflight' = [inflight EXCEPT ![r] =
                                     [pc |-> "increment_query_count",
                                      arg |-> email, seen |-> {i},
                                      rows |-> <<subs[i]>>]]
                   /\ UNCHANGED <<subs, resp>>
  /\ UNCHANGED <<now, observe, smtp_up, minute, otp_store, pw_checked, tokens, blacklist, users, payments,
                 cancellations, intents, attached, notices, delivered>>

(* subscription.queries_used = old_count + 1; db.commit() *)
increment_query_count_commit(r) ==
  /\ inflight[r].pc = "increment_query_count"
  /\ \E i \in inflight[r].seen :
       /\ subs' = [subs EXCEPT ![i].queries_used =
                                 IncrementedCount(inflight[r].rows[1])]
       /\ resp' = Response("increment_query_count", inflight[r].arg, "ok",
                           IncrementedCount(inflight[r].rows[1]),
                           Plans[subs[i].plan].query_limit)
  /\ inflight' = [inflight EXCEPT ![r] = Idle]
  /\ UNCHANGED <<now, observe, smtp_up, minute, otp_store, pw_checked, tokens, blacklist, users, payments,
                 cancellations, intents, attached, notices, delivered>>

NextQueryRace ==
  \/ \E d \in TickSteps : now + d <= MaxNow /\ Tick(d)
  \/ Len(subs) < MaxUsageSubs /\ activate_free_plan(1)
  \/ \E r \in 1..MaxRequests : check_subscription_usage_passed(r, 1)
  \/ \E r \in 1..MaxRequests : perform_query_commit(r)
  \/ \E r \in 1..MaxRequests : increment_query_count_query(r)
  \/ \E r \in 1..MaxRequests :
       (\A i \in DOMAIN subs : subs[i].queries_used < MaxQueries)
         /\ increment_query_count_commit(r)

SpecQueryRace == InitQuiet /\ [][NextQueryRace]_vars

(***************************************************************************)
(* Retry specification: one user buys the Solo plan monthly with a saved   *)
(* card; as the days go by one at a time the renewal run charges the card, *)
(* Stripe reports declined charges to the webhook, and the user cancels    *)
(* and reactivates, deleting the saved card in between.                    *)
(***************************************************************************)
RetryOutcomes == {"succeeded", "card_declined"}

NextRetry ==
  \/ \E d \in RetryTickSteps : now + d <= MaxRetryNow /\ Tick(d)
  \/ Len(intents) < MaxRenewalSubs
       /\ create_simple_payment_intent(1, DefaultManualPlanId, "monthly")
  \/ \E i \in 1..MaxRenewalSubs : StripeCustomerPays(i)
  \/ \E i \in 1..MaxRenewalSubs :
       Len(subs) < MaxRenewalSubs /\ confirm_simple_payment(1, i)
  \/ Len(intents) + Cardinality(get_subscriptions_for_renewal(subs))
         <= MaxRetryIntents
       /\ run_renewal_check(RetryOutcomes)
  \/ \E i \in 1..MaxRetryIntents :
       (\A j \in DOMAIN subs : subs[j].renewal_attempts < MaxAttemptsSeen)
         /\ enhanced_stripe_webhook(TRUE, "payment_intent.payment_failed", i)
  \/ Len(cancellations) < MaxCancellations /\ cancel_subscription(1, FALSE)
  \/ reactivate_subscription(1)
  \/ delete_payment_method(1)

SpecRetry == InitQuiet /\ [][NextRetry]_vars

(***************************************************************************)
(* Two renewal runs at the same time (two cron invocations of              *)
(* run_enhanced_renewal_service), each an EnhancedRenewalService with its  *)
(* own Session.  A run loads its candidates once; its commits write the    *)
(* attributes it changed on the objects it loaded.                         *)
(***************************************************************************)

(* UPDATE of one row at commit: the columns whose value the session        *)
(* changed since it loaded the row                                         *)
Flush(stored, loaded, changed) ==
  [f \in DOMAIN stored |-> IF changed[f] # loaded[f] THEN changed[f] ELSE stored[f]]

(* subscriptions_to_renew = self.get_subscriptions_for_renewal() *)
run_renewal_check_select(r) ==
  /\ inflight[r] = Idle
  /\ inflight' = [inflight EXCEPT ![r] =
                    [pc |-> "run_renewal_check", arg |-> now,
                     seen |-> get_subscriptions_for_renewal(subs),
                     rows |-> subs]]
  /\ UNCHANGED <<now, observe, smtp_up, minute, otp_store, pw_checked, tokens, blacklist, users, subs, payments,
                 cancellations, intents, attached, notices, delivered, resp>>

(* for subscription in subscriptions_to_renew:                             *)
(*     self.process_subscription_renewal(subscription)                     *)
(* on the rows as this run loaded them; finally self.db.close()            *)
run_renewal_check_process(r, outcomes) ==
  /\ inflight[r].pc = "run_renewal_check"
  /\ LET C == inflight[r].seen
         loaded == inflight[r].rows
     IN \E order \in Orders(C), charge \in [C -> outcomes] :
          /\ \A i \in C : charge[i] = "succeeded" => CanExtend(loaded[i])
          /\ LET st == RenewEach(order, charge,
                         [cur |-> loaded, com |-> loaded, pay |-> payments,
                          ints |-> intents, notices |-> notices,
                          ok |-> 0, failed |-> 0])
             IN /\ subs' = [i \in DOMAIN subs |->
                             IF i \in DOMAIN loaded
                             THEN Flush(subs[i], loaded[i], st.com[i])
                             ELSE subs[i]]
                /\ payments' = st.pay
                /\ intents' = st.ints
                /\ notices' = st.notices
                /\ delivered' = Accepted(st.notices \ notices)
                /\ resp' = Response("run_renewal_check", NoUser, "done",
                                    st.ok, st.failed)
  /\ inflight' = [inflight EXCEPT ![r] = Idle]
  /\ UNCHANGED <<now, observe, smtp_up, minute, otp_store, pw_checked, tokens, blacklist, users, cancellations, attached>>

NextRenewalRace ==
  \/ \E d \in TickSteps : now + d <= MaxNow /\ Tick(d)
  \/ Len(intents) < MaxRenewalSubs
       /\ create_simple_payment_intent(1, DefaultManualPlanId, "monthly")
  \/ \E i \in 1..MaxRenewalSubs : StripeCustomerPays(i)
  \/ \E i \in 1..MaxRenewalSubs :
       Len(subs) < MaxRenewalSubs /\ confirm_simple_payment(1, i)
  \/ \E r \in 1..MaxRequests : run_renewal_check_select(r)
  \/ \E r \in 1..MaxRequests :
       Len(intents) + Cardinality(inflight[r].seen) <= MaxRenewalIntents
         /\ run_renewal_check_process(r, RetryOutcomes)

SpecRenewalRace == InitQuiet /\ [][NextRenewalRace]_vars

(***************************************************************************)
(* Fault specification: the activations that write a subscription row and  *)
(* a PaymentHistory row (checkout webhook, charge of a saved card) and the *)
(* renewal run, with and without a step raising midway.                    *)
(***************************************************************************)
FaultOutcomes == {"succeeded", "raised_after_extend"}

NextFaults ==
  \/ \E d \in TickSteps : now + d <= MaxNow /\ Tick(d)
  \/ Len(intents) < MaxFaultSubs
       /\ create_checkout_session(1, DefaultManualPlanId, "monthly")
  \/ Len(intents) < MaxFaultSubs
       /\ create_simple_payment_intent(1, DefaultManualPlanId, "monthly")
  \/ \E i \in 1..MaxFaultSubs : StripeCustomerPays(i)
  \/ \E i \in 1..MaxFaultSubs :
       Len(subs) < MaxFaultSubs
         /\ enhanced_stripe_webhook(TRUE, "checkout.session.completed", i)
  \/ \E i \in 1..MaxFaultSubs :
       Len(subs) < MaxFaultSubs
         /\ handle_enhanced_checkout_completed_history_fails(i)
  \/ Len(subs) < MaxFaultSubs /\ Len(intents) < MaxFaultIntents
       /\ charge_saved_payment_method(1, DefaultManualPlanId, "monthly", NoPM,
                                      "succeeded")
  \/ Len(subs) < MaxFaultSubs /\ Len(intents) < MaxFaultIntents
       /\ charge_saved_payment_method_history_fails(1, DefaultManualPlanId,
                                                    "monthly")
  \/ Len(intents) + Cardinality(get_subscriptions_for_renewal(subs))
         <= MaxFaultIntents
       /\ run_renewal_check(FaultOutcomes)

SpecFaults == InitQuiet /\ [][NextFaults]_vars

(***************************************************************************)
(* Notification specification: one user buys a plan with a card that is    *)
(* saved, the row is renewed, cancelled and reactivated while the SMTP     *)
(* server comes and goes.                                                  *)
(***************************************************************************)

(* the SMTP server becomes unreachable, or reachable again *)
SmtpChanges ==
  /\ smtp_up' = ~smtp_up
  /\ UNCHANGED <<now, users, subs, payments, cancellations, intents, attached,
                 notices, delivered, resp, observe, tokens, blacklist, inflight,
                 minute, otp_store, pw_checked>>

NextNotify ==
  \/ \E d \in TickSteps : now + d <= MaxNow /\ Tick(d)
  \/ SmtpChanges
  \/ Len(intents) < MaxNotifySubs
       /\ create_simple_payment_intent(1, DefaultManualPlanId, "monthly")
  \/ \E i \in 1..MaxNotifySubs : StripeCustomerPays(i)
  \/ \E i \in 1..MaxNotifySubs :
       Len(subs) < MaxNotifySubs /\ confirm_simple_payment(1, i)
  \/ \E im \in BOOLEAN :
       Len(cancellations) < MaxNotifyRows /\ cancel_subscription(1, im)
  \/ reactivate_subscription(1)
  \/ Len(intents) + Cardinality(get_subscriptions_for_renewal(subs)) <= MaxNotifyIntents
       /\ run_renewal_check(ChargeOutcomes)

SpecNotify == Init /\ [][NextNotify]_vars

(***************************************************************************)
(* Lookup specification: the handlers are called with users, plans and     *)
(* payment sessions that exist and that do not.  Handler outcomes are      *)
(* recorded.                                                               *)
(***************************************************************************)
PlanInputs == {DefaultManualPlanId, NoPlan}
LookupUsers == {1, NoUser}

NextLookup ==
  \/ \E e \in LookupUsers :
       activate_free_plan(e) /\ Len(subs') <= MaxLookupSubs
  \/ \E e \in LookupUsers, p \in PlanInputs :
       manual_activate_subscription(e, p, "monthly") /\ Len(subs') <= MaxLookupSubs
  \/ \E p \in PlanInputs :
       create_checkout_session(1, p, "monthly") /\ Len(intents') <= MaxLookupIntents
  \/ \E i \in 1..MaxLookupIntents : StripeCustomerPays(i)
  \/ \E i \in 1..(MaxLookupIntents + 1) :
       get_payment_status(i) /\ Len(subs') <= MaxLookupSubs
  \/ \E e \in LookupUsers : get_current_subscription_enhanced(e)
  \/ \E e \in LookupUsers : get_query_status(e)
  \/ \E e \in LookupUsers :
       increment_query_count(e)
         /\ \A i \in DOMAIN subs' : subs'[i].queries_used <= MaxLookupQueries
  \/ \E e \in LookupUsers, p \in PlanInputs :
       create_simple_payment_intent(e, p, "monthly")
         /\ Len(intents') <= MaxLookupIntents
  \/ \E e \in LookupUsers, i \in 1..(MaxLookupIntents + 1) :
       confirm_simple_payment(e, i) /\ Len(subs') <= MaxLookupSubs
  \/ Len(cancellations) < MaxCancellations /\ cancel_subscription(1, FALSE)
  \/ reactivate_subscription(1)

SpecLookup == Init /\ [][NextLookup]_vars

(***************************************************************************)
(* Sign-in specification: user 1 signed up with 2FA by e-mail, user 2      *)
(* without 2FA.  Every route of routers/auth.py that issues tokens or      *)
(* touches the OTP store is called with right and wrong passwords and      *)
(* codes, while minutes pass.  Handler outcomes are recorded.              *)
(***************************************************************************)
InitSignIn ==
  /\ now = 0
  /\ users = [u \in Users |-> NewUser(u = 1)]
  /\ subs = << >>
  /\ payments = << >>
  /\ cancellations = << >>
  /\ intents = << >>
  /\ attached = [u \in Users |-> FALSE]
  /\ notices = {}
  /\ resp = Observed("init", NoUser, "ok", 0, 0)
  /\ observe = TRUE
  /\ tokens = << >>
  /\ blacklist = {}
  /\ inflight = [r \in 1..MaxRequests |-> Idle]
  /\ smtp_up = TRUE
  /\ delivered = {}
  /\ minute = 0
  /\ otp_store = [u \in Users |-> NoOtp]
  /\ pw_checked = {}

NextSignIn ==
  \/ \E d \in SignInTickSteps : minute + d <= MaxSignInMinute /\ TickMinute(d)
  \/ \E u \in Users, pw \in PasswordInputs :
       login_user(u, pw) /\ Len(tokens') <= MaxSignInTokens
  \/ \E m \in AuthMethods : send_2fa_otp(1, m, 1)
  \/ resend_login_otp(1)
  \/ \E m \in AuthMethods, c \in CodeInputs : verify_2fa_otp(1, m, c)
  \/ \E m \in AuthMethods, c \in CodeInputs :
       complete_login_after_2fa(1, m, c) /\ Len(tokens') <= MaxSignInTokens
  \/ \E u \in Users : google_login(u) /\ Len(tokens') <= MaxSignInTokens

SpecSignIn == InitSignIn /\ [][NextSignIn]_vars

(***************************************************************************)
(* Password-reset specification: user 1 asks for reset links and presents  *)
(* reset tokens, current, earlier and expired, while minutes pass; logins  *)
(* with the old and the new password show which one is in force.  Handler  *)
(* outcomes are recorded.                                                  *)
(***************************************************************************)
NextReset ==
  \/ \E d \in ResetTickSteps : minute + d <= MaxResetMinute /\ TickMinute(d)
  \/ \E e \in LookupUsers : forgot_password(e)
  \/ \E t \in ResetTokens, pw \in PasswordInputs :
       t[1] = 1 /\ t[2] <= minute /\ reset_password(t, pw)
  \/ \E pw \in PasswordInputs :
       login_user(1, pw) /\ Len(tokens') <= MaxSignInTokens

SpecReset == Init /\ [][NextReset]_vars

(***************************************************************************)
(* Repeated-runs specification: one purchase with a saved card, then the   *)
(* renewal job runs again and again while days pass, and every renewal     *)
(* charge is declined.  Beside the job, Stripe delivers payment-failed     *)
(* events for the declined charges and the user calls endpoints guarded by *)
(* check_subscription_usage.  The job is started by cron every day, so a   *)
(* run that has work to do is made before the date changes, and the clock  *)
(* keeps advancing up to the horizon; the webhook deliveries and the       *)
(* user's requests may or may not happen.                                  *)
(***************************************************************************)
(* the date changes once the day's run has been made: no row is left     *)
(* selected for renewal or retry                                           *)
DayPasses ==
  /\ get_subscriptions_for_renewal(subs) = {}
  /\ \E d \in RetryTickSteps : now + d <= MaxLiveNow /\ Tick(d)

RunRenewalDeclined == run_renewal_check({"card_declined"})

NextRetryLive ==
  \/ DayPasses
  \/ Len(intents) < MaxRenewalSubs
       /\ create_simple_payment_intent(1, DefaultManualPlanId, "monthly")
  \/ \E i \in 1..MaxRenewalSubs : StripeCustomerPays(i)
  \/ \E i \in 1..MaxRenewalSubs :
       Len(subs) < MaxRenewalSubs /\ confirm_simple_payment(1, i)
  \/ RunRenewalDeclined
  \/ \E i \in 1..MaxRetryIntents :
       (\A j \in DOMAIN subs : subs[j].renewal_attempts < MaxAttemptsSeen)
         /\ enhanced_stripe_webhook(TRUE, "payment_intent.payment_failed", i)
  \/ check_subscription_usage(1, TRUE, FALSE)

SpecRetryLive ==
  /\ InitQuiet
  /\ [][NextRetryLive]_vars
  /\ WF_vars(RunRenewalDeclined)
  /\ WF_vars(DayPasses)

(***************************************************************************)
(* Properties                                                              *)
(***************************************************************************)

(* C1: after any sequence of completed operations (activations of every   *)
(* kind, cancellation, reactivation, expiry on access, renewal) every user *)
(* has at most one subscription row with active = TRUE.                    *)
C1_AtMostOneActive ==
  \A u \in Users : Cardinality(ActiveRows(subs, u)) <= 1

(* a user was activated a second time while the first row was still in     *)
(* force: the earlier row is inactive, unexpired and not cancelled         *)
C1_Witness ==
  \E i, j \in DOMAIN subs :
    /\ i < j
    /\ subs[i].user = subs[j].user
    /\ ~subs[i].active /\ ~subs[i].is_cancelled /\ subs[i].expiry_date >= now
    /\ subs[j].active

(* C2: a second delivery of the same checkout-completed event (a payment   *)
(* history row for that payment intent exists already) inserts no          *)
(* subscription row and no payment history row.                            *)
C2_RedeliveryIsNoOp ==
  [][\A i \in 1..MaxIntents :
       ( /\ i \in DOMAIN intents
         /\ \E p \in DOMAIN payments : payments[p].payment_intent_id = i
         /\ enhanced_stripe_webhook(TRUE, "checkout.session.completed", i) )
       => (subs' = subs /\ payments' = payments)]_vars

(* C3: confirming a paid checkout session or payment intent that was       *)
(* already applied (a subscription row carries its id) by polling          *)
(* payment-status, by confirm-payment or by the checkout webhook leaves    *)
(* the subscription rows as they are.                                      *)
C3_ReconfirmationIsNoOp ==
  [][\A i \in 1..MaxIntents :
       ( /\ i \in DOMAIN intents
         /\ intents[i].status = "paid"
         /\ \E r \in DOMAIN subs : subs[r].last_payment_intent_id = i
         /\ \/ get_payment_status(i)
            \/ \E e \in Users : confirm_simple_payment(e, i)
            \/ enhanced_stripe_webhook(TRUE, "checkout.session.completed", i) )
       => subs' = subs]_vars

(* C4: the payment-succeeded webhook of a renewal payment intent that the  *)
(* renewal run has already applied to its subscription leaves that row's   *)
(* expiry_date, next_renewal_date and usage counters unchanged.            *)
C4_RenewalWebhookIsNoOp ==
  [][\A i \in 1..MaxIntents :
       ( /\ i \in DOMAIN intents
         /\ intents[i].kind = "renewal"
         /\ intents[i].sub \in DOMAIN subs
         /\ subs[intents[i].sub].last_payment_intent_id = i
         /\ enhanced_stripe_webhook(TRUE, "payment_intent.succeeded", i) )
       => LET r == intents[i].sub IN
          /\ subs'[r].expiry_date = subs[r].expiry_date
          /\ subs'[r].next_renewal_date = subs[r].next_renewal_date
          /\ subs'[r].queries_used = subs[r].queries_used
          /\ subs'[r].documents_uploaded = subs[r].documents_uploaded]_vars

(* C5: under sequential access every active subscription whose plan has    *)
(* query_limit > 0 has queries_used <= query_limit.                        *)
C5_QueriesWithinLimit ==
  \A i \in DOMAIN subs :
    (subs[i].active /\ Plans[subs[i].plan].query_limit > 0)
      => subs[i].queries_used <= Plans[subs[i].plan].query_limit

(* C6: on an active, unexpired subscription whose plan has query_limit     *)
(* L > 0 the entitlement check for a query succeeds while queries_used < L *)
(* and fails with limit exceeded, reporting queries_used and L, once       *)
(* queries_used >= L; a checked query that succeeds counts one use, one    *)
(* that fails counts none (Free plan: ten succeed, the 11th fails 10/10).  *)
C6_QueryLimitEnforced ==
  [][\A i \in DOMAIN subs :
       LET u == subs[i].user
           used == subs[i].queries_used
           L == Plans[subs[i].plan].query_limit
       IN (subs[i].active /\ ~(subs[i].expiry_date < now) /\ L > 0) =>
            /\ check_subscription_usage(u, TRUE, FALSE) =>
                 /\ subs' = subs
                 /\ IF used < L THEN resp'.status = "ok"
                    ELSE resp'.status = "query_limit" /\ resp'.a = used /\ resp'.b = L
            /\ perform_query(u, TRUE) =>
                 IF used < L
                 THEN resp'.status = "ok" /\ subs'[i].queries_used = used + 1
                 ELSE /\ resp'.status = "query_limit" /\ resp'.a = used /\ resp'.b = L
                      /\ subs' = subs]_vars

(* the 11th checked query of a Free plan user was refused showing 10/10 *)
C6_Witness ==
  /\ resp.op = "perform_query"
  /\ resp.status = "query_limit"
  /\ resp.a = 10 /\ resp.b = 10
  /\ \E i \in ActiveRows(subs, resp.user) :
       subs[i].plan = FreePlanId /\ subs[i].queries_used = 10

(* C7: on an active, unexpired subscription whose plan has query_limit 0   *)
(* the entitlement check for a query never fails with limit exceeded.      *)
C7_UnlimitedNeverExceeded ==
  [][\A i \in DOMAIN subs :
       ( /\ subs[i].active
         /\ ~(subs[i].expiry_date < now)
         /\ Plans[subs[i].plan].query_limit = 0
         /\ check_subscription_usage(subs[i].user, TRUE, FALSE) )
       => resp'.status # "query_limit"]_vars

(* C8 as stated: an access (entitlement check, current-subscription        *)
(* lookup, query-status, increment-query) that finds the active row with   *)
(* expiry_date equal to the current time sets active = FALSE.              *)
C8_ExpiredAtExactExpiry ==
  [][\A i \in DOMAIN subs :
       ( /\ subs[i].active
         /\ subs[i].expiry_date = now
         /\ \/ \E q, d \in BOOLEAN : check_subscription_usage(subs[i].user, q, d)
            \/ get_current_subscription_enhanced(subs[i].user)
            \/ get_query_status(subs[i].user)
            \/ increment_query_count(subs[i].user) )
       => ~subs'[i].active]_vars

(* C8 amended: an access treats the active row as expired (reports         *)
(* "expired" and sets active = FALSE) exactly when expiry_date is strictly *)
(* earlier than the current time; at expiry_date = now the row is still    *)
(* served and stays active.                                                *)
C8_ExpiredOnlyPastExpiry ==
  [][\A i \in DOMAIN subs :
       ( /\ subs[i].active
         /\ \/ \E q, d \in BOOLEAN : check_subscription_usage(subs[i].user, q, d)
            \/ get_current_subscription_enhanced(subs[i].user)
            \/ get_query_status(subs[i].user)
            \/ increment_query_count(subs[i].user) )
       => /\ subs'[i].active <=> (subs[i].expiry_date >= now)
          /\ (resp'.status = "expired") <=> (subs[i].expiry_date < now)]_vars

(* an access at the very instant of expiry was served and left the row     *)
(* active                                                                  *)
C8_Witness ==
  /\ resp.op \in {"check_subscription_usage", "get_current_subscription",
                  "get_query_status", "increment_query_count"}
  /\ resp.status # "expired"
  /\ \E i \in ActiveRows(subs, resp.user) : subs[i].expiry_date = now

(* C9: an entitlement check that finds the active row past its expiry      *)
(* date sets it inactive and fails with "expired", leaving the user with   *)
(* no active row; a check that finds no active row fails with              *)
(* "no_subscription" and changes nothing; and a user without an active     *)
(* row stays so until a row is inserted.                                   *)
C9_ExpiredThenNoSubscription ==
  [][\A u \in Users :
       /\ (\E q, d \in BOOLEAN : check_subscription_usage(u, q, d)) =>
            /\ \A i \in ActiveRows(subs, u) :
                 subs[i].expiry_date < now =>
                   /\ ~subs'[i].active
                   /\ resp'.status = "expired"
                   /\ ActiveRows(subs', u) = {}
            /\ ActiveRows(subs, u) = {} =>
                 resp'.status = "no_subscription" /\ subs' = subs
       /\ (ActiveRows(subs, u) = {} /\ Len(subs') = Len(subs)) =>
            ActiveRows(subs', u) = {}]_vars

(* a check after the expiry was recorded: the user's latest row is         *)
(* inactive and past its expiry date, and the check answers that there is  *)
(* no active subscription                                                  *)
C9_Witness ==
  /\ resp.op = "check_subscription_usage"
  /\ resp.status = "no_subscription"
  /\ subs # << >>
  /\ subs[Len(subs)].user = resp.user
  /\ ~subs[Len(subs)].active
  /\ subs[Len(subs)].expiry_date < now

(* C10: rows are inserted one at a time and only by activations; each      *)
(* insertion leaves every earlier row of that user inactive and every row  *)
(* of other users untouched, and the new row is the user's only active     *)
(* one, with both usage counters 0, start_date = now and expiry_date =     *)
(* start_date + 30 days (monthly) or + 365 days (yearly).                  *)
C10_ActivationReplaces ==
  [][Len(subs') # Len(subs) =>
       /\ Len(subs') = Len(subs) + 1
       /\ LET new == subs'[Len(subs')] IN
          /\ new.active
          /\ new.queries_used = 0
          /\ new.documents_uploaded = 0
          /\ new.start_date = now
          /\ new.billing_cycle \in {"monthly", "yearly"}
          /\ new.expiry_date = new.start_date +
               (IF new.billing_cycle = "yearly" THEN YearlyDays ELSE MonthlyDays)
          /\ \A i \in DOMAIN subs :
               IF subs[i].user = new.user
               THEN ~subs'[i].active
               ELSE subs'[i] = subs[i]
          /\ ActiveRows(subs', new.user) = {Len(subs')}]_vars

(* a yearly activation replaced a row that was active: the earlier row was *)
(* deactivated at the activation (it ends at the new row's start), the new *)
(* one runs 365 days from its start with its counters at 0                 *)
C10_Witness ==
  \E i, j \in DOMAIN subs :
    /\ i < j
    /\ subs[i].user = subs[j].user
    /\ ~subs[i].active
    /\ subs[i].expiry_date >= subs[j].start_date
    /\ subs[j].active
    /\ subs[j].billing_cycle = "yearly"
    /\ subs[j].expiry_date = subs[j].start_date + YearlyDays
    /\ subs[j].queries_used = 0 /\ subs[j].documents_uploaded = 0

(* C11: every inserted subscription row has auto_renew = TRUE exactly when *)
(* a payment method was captured for it (payment_method_id is not null).   *)
C11_AutoRenewIffPaymentMethod ==
  [][Len(subs') = Len(subs) + 1 =>
       LET new == subs'[Len(subs')] IN
       new.auto_renew <=> (new.payment_method_id # NoPM)]_vars

(* C12: a renewal run whose charges all succeed leaves every charged row   *)
(* with expiry_date and next_renewal_date one billing period (30 days      *)
(* monthly, 365 days yearly) after the previous expiry_date, both usage    *)
(* counters and renewal_attempts 0, renewal_failed FALSE and no            *)
(* failure_reason, and appends exactly one payment row with is_renewal =   *)
(* TRUE for it.                                                            *)
C12_RenewalSuccess ==
  [][run_renewal_check({"succeeded"}) =>
       LET charged == {i \in get_subscriptions_for_renewal(subs) :
                         /\ attached[subs[i].user]
                         /\ PlanAmount(subs[i].plan, subs[i].billing_cycle) # 0}
           added == (Len(payments) + 1)..Len(payments')
       IN
       /\ SubSeq(payments', 1, Len(payments)) = payments
       /\ Len(payments') = Len(payments) + Cardinality(charged)
       /\ \A i \in charged :
            LET days == IF subs[i].billing_cycle = "yearly" THEN 365 ELSE 30 IN
            /\ subs'[i].expiry_date = subs[i].expiry_date + days
            /\ subs'[i].next_renewal_date = subs[i].expiry_date + days
            /\ subs'[i].queries_used = 0
            /\ subs'[i].documents_uploaded = 0
            /\ subs'[i].renewal_attempts = 0
            /\ ~subs'[i].renewal_failed
            /\ subs'[i].failure_reason = "none"
            /\ Cardinality({p \in added :
                              /\ payments'[p].subscription_id = i
                              /\ payments'[p].is_renewal}) = 1]_vars

(* a yearly row was renewed once, some time after it had fallen due: it    *)
(* runs two years from its start, and the renewal payment is on record     *)
C12_Witness ==
  \E i \in DOMAIN subs, p \in DOMAIN payments :
    /\ subs[i].billing_cycle = "yearly"
    /\ subs[i].expiry_date = subs[i].start_date + 2 * YearlyDays
    /\ subs[i].next_renewal_date = subs[i].expiry_date
    /\ subs[i].last_payment_date > subs[i].start_date + YearlyDays
    /\ subs[i].queries_used = 0 /\ subs[i].renewal_attempts = 0
    /\ ~subs[i].renewal_failed
    /\ payments[p].subscription_id = i /\ payments[p].is_renewal
    /\ payments[p].payment_intent_id = subs[i].last_payment_intent_id

(* The renewal run's own step on failure (the engine's part of C13): a     *)
(* renewal run whose charges all fail leaves every charged row with        *)
(* renewal_attempts one higher, renewal_failed TRUE and a failure_reason;  *)
(* auto_renew is still TRUE while the new renewal_attempts is below 3, and *)
(* at the third failure auto_renew is FALSE and the final-failure notice   *)
(* of that row is sent.                                                    *)
C13_RenewalFailure ==
  [][run_renewal_check(ChargeOutcomes \ {"succeeded"}) =>
       \A i \in get_subscriptions_for_renewal(subs) :
         ( /\ attached[subs[i].user]
           /\ PlanAmount(subs[i].plan, subs[i].billing_cycle) # 0 ) =>
           /\ subs'[i].renewal_attempts = subs[i].renewal_attempts + 1
           /\ subs'[i].renewal_failed
           /\ subs'[i].failure_reason # "none"
           /\ IF subs'[i].renewal_attempts < 3
              THEN /\ subs'[i].auto_renew
                   /\ <<"renewal_final", i>> \notin notices'
              ELSE /\ subs'[i].renewal_attempts = 3
                   /\ ~subs'[i].auto_renew
                   /\ <<"renewal_final", i>> \in notices' \ notices]_vars

(* three charges of one row failed in a row: auto-renewal is off and the   *)
(* final notice went out after two retry notices                           *)
C13_Witness ==
  \E i \in DOMAIN subs :
    /\ subs[i].renewal_attempts = 3
    /\ subs[i].renewal_failed
    /\ ~subs[i].auto_renew
    /\ subs[i].failure_reason # "none"
    /\ {<<"renewal_retry", i>>, <<"renewal_final", i>>} \subseteq notices

(* C14: a non-immediate cancellation of the user's active row sets         *)
(* is_cancelled = TRUE, auto_renew = FALSE and access_ends_at = the row's  *)
(* expiry_date and leaves active = TRUE and expiry_date as they were; an   *)
(* entitlement check of a user whose active row is cancelled succeeds and  *)
(* leaves the row active as long as expiry_date has not passed.            *)
C14_CancelKeepsAccess ==
  [][\A i \in DOMAIN subs :
       LET u == subs[i].user IN
       /\ (subs[i].active /\ ~subs[i].is_cancelled /\ cancel_subscription(u, FALSE)) =>
            /\ resp'.status = "ok"
            /\ subs'[i].is_cancelled
            /\ ~subs'[i].auto_renew
            /\ subs'[i].access_ends_at = subs[i].expiry_date
            /\ subs'[i].active
            /\ subs'[i].expiry_date = subs[i].expiry_date
       /\ ( /\ subs[i].active /\ subs[i].is_cancelled
            /\ ~(now > subs[i].expiry_date)
            /\ \E q \in BOOLEAN : check_subscription_usage(u, q, FALSE) ) =>
            /\ resp'.status = "ok"
            /\ subs'[i].active]_vars

(* an entitlement check succeeded for a user whose row had been cancelled  *)
(* some days before and ends today                                         *)
C14_Witness ==
  /\ resp.op = "check_subscription_usage"
  /\ resp.status = "ok"
  /\ \E i \in ActiveRows(subs, resp.user) :
       /\ subs[i].is_cancelled
       /\ ~subs[i].auto_renew
       /\ subs[i].cancelled_at < now
       /\ subs[i].access_ends_at = subs[i].expiry_date
       /\ subs[i].expiry_date = now

(* C15: a reactivation that succeeds on a row whose latest cancellation    *)
(* was a plain (non-immediate) one leaves the row not cancelled, with      *)
(* auto_renew = TRUE, and with the expiry_date it had when it was          *)
(* cancelled (the access_until of the audit row).                          *)
C15_CancelReactivateRoundTrip ==
  [][\A i \in DOMAIN subs :
       ( /\ subs[i].active /\ subs[i].is_cancelled
         /\ ~(now > subs[i].expiry_date)
         /\ reactivate_subscription(subs[i].user) ) =>
         LET mine == {k \in DOMAIN cancellations :
                        cancellations[k].subscription_id = i}
             last == CHOOSE k \in mine : \A m \in mine : m <= k
         IN /\ mine # {}
            /\ resp'.status = "ok"
            /\ ~subs'[i].is_cancelled
            /\ subs'[i].auto_renew
            /\ subs'[i].active
            /\ subs'[i].expiry_date = subs[i].expiry_date
            /\ subs'[i].expiry_date = cancellations[last].access_until]_vars

(* a row bought with a saved card was cancelled and reactivated: it renews *)
(* automatically again and ends when its audit row said access would end   *)
C15_Witness ==
  /\ resp.op = "reactivate_subscription"
  /\ resp.status = "ok"
  /\ \E i \in ActiveRows(subs, resp.user), k \in DOMAIN cancellations :
       /\ cancellations[k].subscription_id = i
       /\ cancellations[k].access_until = subs[i].expiry_date
       /\ ~subs[i].is_cancelled
       /\ subs[i].auto_renew
       /\ subs[i].payment_method_id # NoPM

(* C16: a reactivation succeeds only if the user has an active, cancelled  *)
(* row with now <= expiry_date; if the user's active, cancelled row has    *)
(* now > expiry_date the request is answered with an error and no          *)
(* subscription row changes: that row is still cancelled with auto_renew   *)
(* = FALSE.                                                                *)
C16_ReactivationWindow ==
  [][\A u \in Users :
       reactivate_subscription(u) =>
         /\ resp'.status = "ok" =>
              \E i \in ActiveRows(subs, u) :
                subs[i].is_cancelled /\ now <= subs[i].expiry_date
         /\ \A i \in ActiveRows(subs, u) :
              (subs[i].is_cancelled /\ now > subs[i].expiry_date) =>
                /\ resp'.status = "400"
                /\ subs' = subs
                /\ subs'[i].is_cancelled
                /\ ~subs'[i].auto_renew]_vars

(* a reactivation was refused: the user's active row is cancelled and its  *)
(* expiry date has passed                                                  *)
C16_Witness ==
  /\ resp.op = "reactivate_subscription"
  /\ resp.status = "400"
  /\ \E i \in ActiveRows(subs, resp.user) :
       /\ subs[i].is_cancelled
       /\ ~subs[i].auto_renew
       /\ now > subs[i].expiry_date

(* C17: audit rows are only ever appended: no step changes or removes an   *)
(* existing SubscriptionCancellation row; a row is appended only by a      *)
(* successful cancellation, and each successful cancellation appends       *)
(* exactly one, holding the subscription's plan name and billing cycle,    *)
(* the days left until expiry (0 if none, or if immediate) and the         *)
(* access-until date (expiry_date, or now if immediate) as of that moment. *)
C17_AuditRowsImmutable ==
  [][/\ Len(cancellations') >= Len(cancellations)
     /\ SubSeq(cancellations', 1, Len(cancellations)) = cancellations
     /\ Len(cancellations') # Len(cancellations) =>
          resp'.op = "cancel_subscription" /\ resp'.status = "ok"
     /\ \A u \in Users, im \in BOOLEAN :
          \A i \in ActiveRows(subs, u) :
            (~subs[i].is_cancelled /\ cancel_subscription(u, im)) =>
              /\ Len(cancellations') = Len(cancellations) + 1
              /\ LET row == cancellations'[Len(cancellations')]
                     left == subs[i].expiry_date - now
                 IN /\ row.subscription_id = i
                    /\ row.user = u
                    /\ row.cancelled_at = now
                    /\ row.plan_name = Plans[subs[i].plan].name
                    /\ row.billing_cycle = subs[i].billing_cycle
                    /\ row.remaining_days =
                         IF im \/ left < 0 THEN 0 ELSE left
                    /\ row.access_until =
                         IF im THEN now ELSE subs[i].expiry_date]_vars

(* one subscription was cancelled, reactivated, renewed and cancelled      *)
(* again: its first audit row still shows the access-until date of the     *)
(* first cancellation, which is no longer the row's expiry date            *)
C17_Witness ==
  /\ Len(cancellations) = 2
  /\ cancellations[1].subscription_id = cancellations[2].subscription_id
  /\ cancellations[1].remaining_days > 0
  /\ cancellations[1].access_until <
       subs[cancellations[1].subscription_id].expiry_date
  /\ cancellations[2].access_until =
       subs[cancellations[2].subscription_id].expiry_date

(* C18: a webhook request whose signature does not verify is answered with *)
(* an error (400) and changes no user, subscription or payment history     *)
(* row, whatever event it claims to carry.                                 *)
C18_BadSignatureRejected ==
  [][\A t \in WebhookEvents, i \in 1..MaxIntents :
       enhanced_stripe_webhook(FALSE, t, i) =>
         /\ resp'.op = "enhanced_stripe_webhook"
         /\ resp'.status = "400"
         /\ users' = users
         /\ subs' = subs
         /\ payments' = payments]_vars

(* a request without a valid signature was refused while it named a paid   *)
(* checkout session that no subscription row has been created for          *)
C18_Witness ==
  /\ resp.op = "enhanced_stripe_webhook"
  /\ resp.status = "400"
  /\ resp.a \in DOMAIN intents
  /\ intents[resp.a].status = "paid"
  /\ \A r \in DOMAIN subs : subs[r].last_payment_intent_id # resp.a
  /\ payments = << >>

(* C19: no request that presents a blacklisted token succeeds on an        *)
(* endpoint that authenticates by the token: /auth/me, a route behind      *)
(* get_current_user, and the public invoice download.                      *)
C19_BlacklistedTokenRejected ==
  [][\A t \in blacklist :
       ( \/ get_current_user_info(t)
         \/ cancel_subscription_route(t, FALSE)
         \/ download_invoice_public(ManualIntent, t) )
       => resp'.status # "ok"]_vars

(* C20: confirming a paid checkout session directly (payment-status poll)  *)
(* leaves the state the webhook-driven confirmation of the same session    *)
(* produces from the same state: the same rows deactivated, the same new   *)
(* row (active, expiry, counters, auto_renew, payment linkage) and the     *)
(* same payment history row appended.                                      *)
C20_ActivationSitesAgree ==
  [][\A i \in 1..MaxIntents :
       ( /\ i \in DOMAIN intents
         /\ intents[i].kind = "checkout"
         /\ intents[i].status = "paid"
         /\ intents[i].email \in Users
         /\ get_payment_status(i) ) =>
         /\ subs' = create_or_update_subscription_from_webhook(subs,
                      intents[i].email, intents[i].plan, intents[i].billing_cycle,
                      i, intents[i].payment_method)
         /\ payments' = Append(payments,
              PaymentRecord(intents[i].email, Len(subs) + 1, i,
                            PlanAmount(intents[i].plan, intents[i].billing_cycle),
                            get_billing_cycle_enum(intents[i].billing_cycle),
                            FALSE))]_vars

(* C21: for every interleaving of two activation requests of one user, no  *)
(* instant shows two rows of the user with active = TRUE, and once no      *)
(* request is under way a user with rows has exactly one active row        *)
C21_OneActiveUnderConcurrency ==
  \A u \in Users :
    /\ Cardinality(ActiveRows(subs, u)) <= 1
    /\ (Pending = {} /\ (\E i \in DOMAIN subs : subs[i].user = u))
         => Cardinality(ActiveRows(subs, u)) = 1

(* C22: the check and the increment are separate steps without a lock: an  *)
(* increment that follows a passed check writes the loaded count plus one  *)
(* whatever the counter has become in between, so two requests that both   *)
(* pass the check at limit - 1 leave queries_used above the limit          *)
C22_IncrementNotRechecked ==
  [][\A r \in 1..MaxRequests :
       (perform_query_commit(r) \/ increment_query_count_commit(r))
         => \A i \in inflight[r].seen :
              subs'[i].queries_used = inflight[r].rows[1].queries_used + 1]_vars

(* no request is under way and a row of a limited plan is above its limit *)
C22_Witness ==
  /\ Pending = {}
  /\ \E i \in DOMAIN subs :
       /\ Plans[subs[i].plan].query_limit > 0
       /\ subs[i].queries_used > Plans[subs[i].plan].query_limit

(* C23: a renewal run attempts a charge only on rows that, when the run    *)
(* selected them, were active with auto_renew = TRUE, had a payment method *)
(* on file, belonged to a user with auto_renew_enabled, and were either    *)
(* due within the 3-day lookahead or failed renewals ready for a retry; a  *)
(* row with auto_renew = FALSE or is_cancelled = TRUE is never charged.    *)
C23_ChargedOnlyIfSelectable ==
  [][run_renewal_check(ChargeOutcomes) =>
       \A i \in DOMAIN subs :
         ( \/ subs'[i].renewal_attempts # subs[i].renewal_attempts
           \/ \E k \in (DOMAIN intents') \ (DOMAIN intents) :
                intents'[k].kind = "renewal" /\ intents'[k].sub = i )
         => /\ subs[i].active
            /\ subs[i].auto_renew
            /\ ~subs[i].is_cancelled
            /\ subs[i].payment_method_id # NoPM
            /\ users[subs[i].user].auto_renew_enabled
            /\ \/ /\ ~subs[i].renewal_failed
                  /\ subs[i].next_renewal_date <= now + 3
               \/ /\ subs[i].renewal_failed
                  /\ subs[i].renewal_attempts < 3
                  /\ subs[i].last_renewal_attempt <= now - 2]_vars

(* a row the engine renewed before was cancelled, is due again with its    *)
(* card on file, and the run that just ended charged nothing               *)
C23_Witness ==
  /\ resp.op = "run_renewal_check"
  /\ resp.a = 0
  /\ resp.b = 0
  /\ \E i \in DOMAIN subs :
       /\ subs[i].active
       /\ subs[i].is_cancelled
       /\ ~subs[i].auto_renew
       /\ subs[i].payment_method_id # NoPM
       /\ attached[subs[i].user]
       /\ subs[i].next_renewal_date <= now + 3
       /\ \E k \in DOMAIN intents :
            intents[k].kind = "renewal" /\ intents[k].sub = i

(* C24: a row whose renewal failed is charged again by a renewal run only  *)
(* when at least 2 days have passed since its last_renewal_attempt, and a  *)
(* row whose renewal_attempts has reached 3 is never charged by a run      *)
C24_RetryCooldownAndCap ==
  [][run_renewal_check(ChargeOutcomes) =>
       \A i \in DOMAIN subs :
         ( \/ subs'[i].renewal_attempts # subs[i].renewal_attempts
           \/ \E k \in (DOMAIN intents') \ (DOMAIN intents) :
                intents'[k].kind = "renewal" /\ intents'[k].sub = i )
         => /\ subs[i].renewal_attempts < 3
            /\ subs[i].renewal_failed =>
                 /\ subs[i].last_renewal_attempt # NoDate
                 /\ now - subs[i].last_renewal_attempt >= 2]_vars

(* a declined renewal was retried: the row carries two declined charges,   *)
(* the second made today, two or more days after the first                 *)
C24_Witness ==
  \E i \in DOMAIN subs :
    /\ subs[i].renewal_failed
    /\ subs[i].last_renewal_attempt = now
    /\ Cardinality({k \in DOMAIN intents :
                      /\ intents[k].kind = "renewal"
                      /\ intents[k].sub = i
                      /\ intents[k].status = "failed"}) = 2

(* C13: renewal_attempts counts the failed renewal charges one by one: a   *)
(* row's renewal_attempts never exceeds the number of its declined renewal *)
(* charges, and the final-failure notice of a row is sent only once three  *)
(* of its charges have failed                                              *)
C13_AttemptsCountFailedCharges ==
  \A i \in DOMAIN subs :
    LET failed_charges == {k \in DOMAIN intents :
                             /\ intents[k].kind = "renewal"
                             /\ intents[k].sub = i
                             /\ intents[k].status = "failed"}
    IN /\ subs[i].renewal_attempts <= Cardinality(failed_charges)
       /\ <<"renewal_final", i>> \in notices => Cardinality(failed_charges) >= 3

(* C25: when a run finds the stored payment method of a selected row gone, *)
(* the row follows the failed-charge path: after the run renewal_attempts  *)
(* is one higher, renewal_failed is TRUE and a failure_reason is stored,   *)
(* and auto_renew is still TRUE unless renewal_attempts has reached 3      *)
C25_MissingMethodIsFailedCharge ==
  [][run_renewal_check(ChargeOutcomes) =>
       \A i \in get_subscriptions_for_renewal(subs) :
         ~attached[subs[i].user] =>
           /\ subs'[i].renewal_attempts = subs[i].renewal_attempts + 1
           /\ subs'[i].renewal_failed
           /\ subs'[i].failure_reason # "none"
           /\ subs'[i].auto_renew <=> subs'[i].renewal_attempts < 3]_vars

(* C26: one renewal run charges each row at most once: for every row the   *)
(* run creates at most one renewal payment intent and at most one          *)
(* PaymentHistory row, raises renewal_attempts by at most one and moves    *)
(* expiry_date by at most one billing period                               *)
C26_OneChargePerRun ==
  [][run_renewal_check(ChargeOutcomes) =>
       \A i \in DOMAIN subs :
         /\ Cardinality({k \in (DOMAIN intents') \ (DOMAIN intents) :
                           intents'[k].kind = "renewal" /\ intents'[k].sub = i}) <= 1
         /\ Cardinality({k \in (DOMAIN payments') \ (DOMAIN payments) :
                           payments'[k].subscription_id = i}) <= 1
         /\ subs'[i].renewal_attempts <= subs[i].renewal_attempts + 1
         /\ subs'[i].expiry_date <=
              subs[i].expiry_date + PeriodDays(subs[i].billing_cycle)]_vars

(* a run renewed a row: one paid renewal intent, one renewal payment row   *)
(* and an expiry one period after the first                                *)
C26_Witness ==
  \E i \in DOMAIN subs :
    /\ Cardinality({k \in DOMAIN intents :
                      /\ intents[k].kind = "renewal"
                      /\ intents[k].sub = i
                      /\ intents[k].status = "paid"}) = 1
    /\ Cardinality({k \in DOMAIN payments :
                      payments[k].is_renewal /\ payments[k].subscription_id = i}) = 1
    /\ subs[i].expiry_date =
         subs[i].start_date + 2 * PeriodDays(subs[i].billing_cycle)

(* C27: when two renewal runs overlap, no row is charged twice for one     *)
(* billing period: a run's successful charge of a row is for the           *)
(* next_renewal_date the row still has, never for a period another run     *)
(* has already charged and moved on from since this run selected the row   *)
C27_NoDoubleChargeAcrossRuns ==
  [][\A r \in 1..MaxRequests :
       run_renewal_check_process(r, ChargeOutcomes) =>
         \A i \in inflight[r].seen :
           (\E k \in (DOMAIN intents') \ (DOMAIN intents) :
              /\ intents'[k].kind = "renewal"
              /\ intents'[k].sub = i
              /\ intents'[k].status = "paid")
           => subs[i].next_renewal_date = inflight[r].rows[i].next_renewal_date]_vars

(* C28: a renewal charge that raises, or returns a status other than       *)
(* succeeded, is never applied as a success: expiry_date,                  *)
(* next_renewal_date, queries_used and documents_uploaded of the row keep  *)
(* their values, no PaymentHistory row is appended, and the row is on the  *)
(* failure path (renewal_failed with a failure_reason, the attempt counted *)
(* and stamped)                                                            *)
C28_FailedChargeNeverApplied ==
  [][run_renewal_check(ChargeOutcomes \ {"succeeded"}) =>
       /\ payments' = payments
       /\ \A i \in DOMAIN subs :
            /\ subs'[i].expiry_date = subs[i].expiry_date
            /\ subs'[i].next_renewal_date = subs[i].next_renewal_date
            /\ subs'[i].queries_used = subs[i].queries_used
            /\ subs'[i].documents_uploaded = subs[i].documents_uploaded
            /\ subs'[i].last_payment_intent_id = subs[i].last_payment_intent_id
            /\ ( /\ i \in get_subscriptions_for_renewal(subs)
                 /\ attached[subs[i].user]
                 /\ PlanAmount(subs[i].plan, subs[i].billing_cycle) # 0 )
               => /\ subs'[i].renewal_failed
                  /\ subs'[i].failure_reason # "none"
                  /\ subs'[i].last_renewal_attempt = now]_vars

(* a charge came back requiring action: the row is marked failed, its      *)
(* period and its used query are as before and no renewal payment row      *)
(* exists                                                                  *)
C28_Witness ==
  \E i \in DOMAIN subs :
    /\ \E k \in DOMAIN intents :
         /\ intents[k].kind = "renewal"
         /\ intents[k].sub = i
         /\ intents[k].status = "requires_action"
    /\ subs[i].renewal_failed
    /\ subs[i].last_renewal_attempt = now
    /\ subs[i].queries_used > 0
    /\ subs[i].expiry_date = subs[i].start_date + PeriodDays(subs[i].billing_cycle)
    /\ \A k \in DOMAIN payments : ~payments[k].is_renewal

(* C29: an operation that writes more than one row is all or nothing: a    *)
(* step that inserts a subscription row also inserts its PaymentHistory    *)
(* row, and a step that moves a row's expiry_date in a renewal also adds   *)
(* the renewal's PaymentHistory row and leaves the row not marked failed;  *)
(* no step commits one part without the other                              *)
C29_MultiRowWritesAtomic ==
  [][/\ Len(subs') > Len(subs) => Len(payments') = Len(payments) + 1
     /\ \A i \in DOMAIN subs :
          subs'[i].expiry_date # subs[i].expiry_date =>
            /\ \E k \in (DOMAIN payments') \ (DOMAIN payments) :
                 payments'[k].subscription_id = i /\ payments'[k].is_renewal
            /\ ~subs'[i].renewal_failed]_vars

(* C30: every PaymentHistory row references an existing subscription row   *)
(* of the same user and is never changed or removed, and every row         *)
(* activated or renewed by a succeeded charge has exactly one              *)
(* PaymentHistory row with that charge's payment intent id                 *)
C30_PaymentHistoryIntegrity ==
  [][/\ \A k \in DOMAIN payments :
          k \in DOMAIN payments' /\ payments'[k] = payments[k]
     /\ \A k \in DOMAIN payments' :
          /\ payments'[k].subscription_id \in DOMAIN subs'
          /\ subs'[payments'[k].subscription_id].user = payments'[k].user
     /\ \A i \in DOMAIN subs' :
          ( /\ subs'[i].last_payment_intent_id \in DOMAIN intents'
            /\ intents'[subs'[i].last_payment_intent_id].status = "paid" )
          => Cardinality({k \in DOMAIN payments' :
                            payments'[k].payment_intent_id =
                              subs'[i].last_payment_intent_id}) = 1]_vars

(* C31: an immediate cancellation of the user's active row leaves that row *)
(* inactive, cancelled, with auto_renew = FALSE and access_ends_at = now,  *)
(* and appends an audit row with access_until = now and remaining_days =   *)
(* 0; afterwards the user has no active row, an entitlement check of a     *)
(* user without an active row is refused and changes nothing, and a user   *)
(* without an active row gets one only by a step that inserts a new row.   *)
C31_ImmediateCancellation ==
  [][\A u \in Users :
       /\ \A i \in ActiveRows(subs, u) :
            (~subs[i].is_cancelled /\ cancel_subscription(u, TRUE)) =>
              /\ resp'.status = "ok"
              /\ ~subs'[i].active
              /\ subs'[i].is_cancelled
              /\ ~subs'[i].auto_renew
              /\ subs'[i].access_ends_at = now
              /\ subs'[i].expiry_date = subs[i].expiry_date
              /\ Len(cancellations') = Len(cancellations) + 1
              /\ cancellations'[Len(cancellations')].subscription_id = i
              /\ cancellations'[Len(cancellations')].access_until = now
              /\ cancellations'[Len(cancellations')].remaining_days = 0
              /\ ActiveRows(subs', u) = {}
       /\ ( /\ ActiveRows(subs, u) = {}
            /\ \E q \in BOOLEAN : check_subscription_usage(u, q, FALSE) ) =>
              /\ resp'.status = "no_subscription"
              /\ subs' = subs
       /\ (ActiveRows(subs, u) = {} /\ ActiveRows(subs', u) # {}) =>
              /\ Len(subs') = Len(subs) + 1
              /\ ActiveRows(subs', u) = {Len(subs')}
       /\ (ActiveRows(subs, u) = {} /\ reactivate_subscription(u)) =>
              resp'.status = "404" /\ subs' = subs]_vars

(* an entitlement check was refused for a user whose row was cancelled     *)
(* immediately some days before, although the paid period of that row has  *)
(* not passed; the audit row shows no remaining days                       *)
C31_Witness ==
  /\ resp.op = "check_subscription_usage"
  /\ resp.status = "no_subscription"
  /\ ActiveRows(subs, resp.user) = {}
  /\ \E i \in DOMAIN subs, k \in DOMAIN cancellations :
       /\ subs[i].user = resp.user
       /\ subs[i].is_cancelled
       /\ ~subs[i].active
       /\ subs[i].access_ends_at = subs[i].cancelled_at
       /\ subs[i].access_ends_at < now
       /\ now <= subs[i].expiry_date
       /\ cancellations[k].subscription_id = i
       /\ cancellations[k].access_until = subs[i].cancelled_at
       /\ cancellations[k].remaining_days = 0

(* C32: no step delivers mail while the SMTP server is down, and every     *)
(* step that hands a notification to send_email has committed the          *)
(* transition it reports whether or not the server is up: a cancellation   *)
(* notice goes with the row cancelled, its audit row and a success answer; *)
(* a renewal success notice with the period extended, the failure marks    *)
(* cleared and a renewal payment row; a retry or final failure notice with *)
(* the row marked failed and its expiry date as before; and a successful   *)
(* confirmation of a payment inserts the new active row.                   *)
C32_NotificationNeverBlocks ==
  [][/\ ~smtp_up => delivered' = delivered
     /\ delivered \subseteq delivered' /\ delivered' \subseteq notices'
     /\ smtp_up => notices' \ notices \subseteq delivered'
     /\ \A u \in Users, im \in BOOLEAN :
          \A i \in ActiveRows(subs, u) :
            (~subs[i].is_cancelled /\ cancel_subscription(u, im)) =>
               <<"cancellation", i>> \in notices'
     /\ \A i \in DOMAIN subs :
          /\ <<"cancellation", i>> \in notices' \ notices =>
               /\ resp'.op = "cancel_subscription" /\ resp'.status = "ok"
               /\ subs'[i].is_cancelled /\ ~subs[i].is_cancelled
               /\ Len(cancellations') = Len(cancellations) + 1
               /\ cancellations'[Len(cancellations')].subscription_id = i
          /\ <<"renewal_success", i>> \in notices' \ notices =>
               /\ subs'[i].expiry_date =
                    subs[i].expiry_date + PeriodDays(subs[i].billing_cycle)
               /\ ~subs'[i].renewal_failed
               /\ subs'[i].renewal_attempts = 0
               /\ \E k \in DOMAIN payments' \ DOMAIN payments :
                    payments'[k].subscription_id = i /\ payments'[k].is_renewal
          /\ ( \/ <<"renewal_retry", i>> \in notices' \ notices
               \/ <<"renewal_final", i>> \in notices' \ notices ) =>
               /\ subs'[i].renewal_failed
               /\ subs'[i].renewal_attempts = subs[i].renewal_attempts + 1
               /\ subs'[i].expiry_date = subs[i].expiry_date
               /\ payments' = payments
     /\ \A u \in Users, i \in DOMAIN intents :
          (confirm_simple_payment(u, i) /\ resp'.status = "ok") =>
             /\ Len(subs') = Len(subs) + 1
             /\ subs'[Len(subs')].active]_vars

(* a row was renewed and then cancelled while the SMTP server was down:    *)
(* both transitions are committed and neither notice was delivered         *)
C32_Witness ==
  /\ ~smtp_up
  /\ resp.op = "cancel_subscription"
  /\ resp.status = "ok"
  /\ \E i \in DOMAIN subs :
       /\ {<<"renewal_success", i>>, <<"cancellation", i>>} \subseteq notices
       /\ delivered = {}
       /\ subs[i].is_cancelled
       /\ \E k \in DOMAIN payments :
            payments[k].subscription_id = i /\ payments[k].is_renewal
       /\ \E k \in DOMAIN cancellations : cancellations[k].subscription_id = i

(* C33: a request that names a user, a plan or a payment session that does *)
(* not exist, or that needs an active subscription where the user has      *)
(* none, is answered 404 and leaves the users, subscriptions, payments,    *)
(* audit rows and payment intents as they were.                            *)
C33_AbsentIsNotFound ==
  [][\A e \in LookupUsers, p \in PlanInputs, i \in 1..(MaxLookupIntents + 1) :
       LET rejected ==
             /\ resp'.status = "404"
             /\ <<users', subs', payments', cancellations', intents', attached'>>
                  = <<users, subs, payments, cancellations, intents, attached>>
       IN /\ (e \notin Users /\ activate_free_plan(e)) => rejected
          /\ ( /\ e \notin Users \/ p \notin PlanIds
               /\ manual_activate_subscription(e, p, "monthly") ) => rejected
          /\ (p \notin PlanIds /\ create_checkout_session(1, p, "monthly")) => rejected
          /\ (i \notin DOMAIN intents /\ get_payment_status(i)) => rejected
          /\ (e \notin Users /\ get_current_subscription_enhanced(e)) => rejected
          /\ (e \notin Users /\ get_query_status(e)) => rejected
          /\ (e \notin Users /\ increment_query_count(e)) => rejected
          /\ ( /\ e \notin Users \/ p \notin PlanIds
               /\ create_simple_payment_intent(e, p, "monthly") ) => rejected
          /\ ( /\ e \notin Users \/ i \notin DOMAIN intents
               /\ confirm_simple_payment(e, i) ) => rejected
          /\ ( /\ e \in Users /\ ActiveRows(subs, e) = {}
               /\ cancel_subscription(e, FALSE) \/ reactivate_subscription(e) )
               => rejected]_vars

(* C34: whenever tokens are issued for a user with is_2fa_enabled, that    *)
(* user's password was verified by login before, and the step that issues  *)
(* them is complete-login consuming an unexpired OTP that was stored for   *)
(* the user's own address.                                                 *)
C34_TokensNeedPasswordAndOtp ==
  [][\A u \in Users :
       ( /\ users[u].is_2fa_enabled
         /\ Len(tokens') = Len(tokens) + 1
         /\ tokens'[Len(tokens')] = u ) =>
         /\ u \in pw_checked
         /\ resp'.op = "complete_login_after_2fa"
         /\ otp_store[u] # NoOtp
         /\ ~OtpExpired(otp_store[u])
         /\ otp_store'[u] = NoOtp]_vars

(* C35 as stated: an e-mail OTP check succeeds exactly if the code sent is *)
(* the one stored last for the address and the check comes before the      *)
(* expiry, 10 minutes after it was stored; a success removes the stored    *)
(* OTP, and a wrong code before the expiry leaves the store as it was.     *)
C35_OtpOnceBeforeExpiry ==
  [][\A u \in Users, c \in CodeInputs :
       (verify_2fa_otp(u, "email", c) \/ complete_login_after_2fa(u, "email", c)) =>
         LET good == /\ otp_store[u] # NoOtp
                     /\ c = otp_store[u].otp
                     /\ minute < otp_store[u].expiry
         IN /\ resp'.status = "ok" <=> good
            /\ good => otp_store'[u] = NoOtp
            /\ ( /\ otp_store[u] # NoOtp
                 /\ minute < otp_store[u].expiry
                 /\ c # otp_store[u].otp ) => otp_store' = otp_store]_vars

(* C35, amended: an e-mail OTP check succeeds exactly if the code sent is  *)
(* the one stored last for the address and the check comes no later than   *)
(* the expiry, 10 minutes after it was stored (the expiry instant itself   *)
(* is still accepted); a success removes the stored OTP, so the same code  *)
(* is refused afterwards; a wrong code up to the expiry leaves the store   *)
(* as it was; storing an OTP replaces the one stored before and sets the   *)
(* expiry to 10 minutes from then.                                         *)
C35_OtpOnceUntilExpiry ==
  [][\A u \in Users, c \in CodeInputs :
       /\ (verify_2fa_otp(u, "email", c) \/ complete_login_after_2fa(u, "email", c)) =>
            LET good == /\ otp_store[u] # NoOtp
                        /\ c = otp_store[u].otp
                        /\ minute <= otp_store[u].expiry
            IN /\ resp'.status = "ok" <=> good
               /\ resp'.status # "ok" <=> resp'.status = "400"
               /\ good => otp_store'[u] = NoOtp
               /\ ( /\ otp_store[u] # NoOtp
                    /\ minute <= otp_store[u].expiry
                    /\ c # otp_store[u].otp ) => otp_store' = otp_store
       /\ (otp_store'[u] # otp_store[u] /\ otp_store'[u] # NoOtp) =>
            /\ otp_store'[u].otp \in Codes
            /\ otp_store'[u].expiry = minute + OtpExpiryMinutes]_vars

(* an OTP check succeeded ten minutes or more into the run and the store   *)
(* no longer holds an OTP for that address                                 *)
C35_Witness ==
  /\ resp.op \in {"verify_2fa_otp", "complete_login_after_2fa"}
  /\ resp.status = "ok"
  /\ resp.user \in Users
  /\ otp_store[resp.user] = NoOtp
  /\ minute = OtpExpiryMinutes
  /\ tokens = << >>


(***************************************************************************)
(* C36: a reset token resets the password at most once, and only the most  *)
(* recently issued token of a user is accepted.  A reset request succeeds  *)
(* exactly when the presented token is the one stored on the user row and  *)
(* is not older than the maximum age; a success sets the password and      *)
(* clears the stored token, so that no token is accepted until a new link  *)
(* is requested; a forgot-password request replaces the stored token by    *)
(* the new one; and a rejected request leaves every user row, the password *)
(* included, unchanged.                                                    *)
(***************************************************************************)
C36_ResetTokenOnce ==
  [][ /\ \A t \in ResetTokens, pw \in PasswordInputs :
           reset_password(t, pw) =>
             /\ (resp'.status = "ok") <=>
                  (users[t[1]].reset_token = t
                     /\ minute - t[2] <= ResetMaxAgeMinutes)
             /\ resp'.status = "ok" =>
                  /\ users'[t[1]].password = pw
                  /\ users'[t[1]].reset_token = NoToken
             /\ resp'.status # "ok" =>
                  resp'.status = "400" /\ users' = users
      /\ \A u \in Users :
           forgot_password(u) =>
             /\ users'[u].reset_token = <<u, minute>>
             /\ users'[u].password = users[u].password
    ]_vars

(* a reset went through earlier (the password is the new one, no token is  *)
(* stored) and a further reset request has just been rejected              *)
C36_Witness ==
  /\ resp.op = "reset_password"
  /\ resp.status = "400"
  /\ users[1].password = "password_1"
  /\ users[1].reset_token = NoToken


(***************************************************************************)
(* C37: in every reachable state every subscription row has                *)
(* 0 <= renewal_attempts <= 3 (the maximum retry count), and every row     *)
(* with renewal_failed and renewal_attempts >= 3 has auto_renew off, also  *)
(* when payment-failed webhooks for renewal charges are processed beside   *)
(* the renewal runs                                                        *)
(***************************************************************************)
C37_AttemptsBounded ==
  \A i \in DOMAIN subs :
    /\ 0 <= subs[i].renewal_attempts
    /\ subs[i].renewal_attempts <= MaxRetryAttempts
    /\ (subs[i].renewal_failed /\ subs[i].renewal_attempts >= MaxRetryAttempts)
         => ~subs[i].auto_renew


(***************************************************************************)
(* C38: under repeated renewal runs with charges that keep failing, every  *)
(* subscription that entered the failed-renewal state (with the days its   *)
(* retries need still ahead) eventually has auto_renew off and its         *)
(* final-failure notification sent                                         *)
(***************************************************************************)
C38_FailedRenewalTerminates ==
  \A i \in 1..MaxRenewalSubs :
    (/\ i \in DOMAIN subs
     /\ subs[i].renewal_failed
     /\ now + RetriesLeftDays <= MaxLiveNow)
      ~> (/\ i \in DOMAIN subs
          /\ ~subs[i].auto_renew
          /\ <<"renewal_final", i>> \in notices)


(***************************************************************************)
(* C39: a cancellation request of a user without an active subscription is *)
(* answered 404, one whose active subscription is already cancelled is     *)
(* answered 400, and a request answered 404 or 400 changes nothing: no     *)
(* subscription field is modified, no SubscriptionCancellation row is      *)
(* added, and no user, payment or notification is touched                  *)
(***************************************************************************)
C39_RejectedCancellationChangesNothing ==
  [][\A u \in Users, im \in BOOLEAN :
       cancel_subscription(u, im) =>
         /\ ActiveRows(subs, u) = {} => resp'.status = "404"
         /\ (/\ ActiveRows(subs, u) # {}
             /\ \A i \in ActiveRows(subs, u) : subs[i].is_cancelled)
              => resp'.status = "400"
         /\ resp'.status \in {"404", "400"} =>
              /\ subs' = subs
              /\ cancellations' = cancellations
              /\ users' = users
              /\ payments' = payments
              /\ notices' = notices
              /\ delivered' = delivered
    ]_vars

(* a second cancellation of a subscription that was cancelled at period    *)
(* end, and is still active, has just been answered 400                    *)
C39_Witness ==
  /\ resp.op = "cancel_subscription"
  /\ resp.status = "400"
  /\ resp.a \in DOMAIN subs
  /\ subs[resp.a].active
  /\ subs[resp.a].is_cancelled
  /\ Len(cancellations) = 1
====
